---- MODULE Spec2Model ----
(***************************************************************************)
(* uChart (src/uchart.py): a stream of rows is parsed into numeric         *)
(* samples, a time column is detected, per-unit change records and bucket  *)
(* sums are kept while reading, and at end of stream the samples are       *)
(* compressed to the plot width and drawn with an X-axis legend.           *)
(*                                                                         *)
(* Text is modelled as a sequence of one-character strings, so that the    *)
(* slices, the strptime formats and the regular expressions of the source  *)
(* are computed character by character.  Python's None is modelled by      *)
(* NoIndex for a field index, by the empty sequence for a text and by 0    *)
(* for the optional width (main maps a width below 1 to None).             *)
(***************************************************************************)
EXTENDS Integers, Sequences, FiniteSets, TLC

\* ------------------------------------------------------------------ text

Digits == {"0", "1", "2", "3", "4", "5", "6", "7", "8", "9"}

DigitVal ==
  "0" :> 0 @@ "1" :> 1 @@ "2" :> 2 @@ "3" :> 3 @@ "4" :> 4 @@
  "5" :> 5 @@ "6" :> 6 @@ "7" :> 7 @@ "8" :> 8 @@ "9" :> 9

DigitChar == <<"0", "1", "2", "3", "4", "5", "6", "7", "8", "9">>

Min2(a, b) == IF a < b THEN a ELSE b

Max2(a, b) == IF a > b THEN a ELSE b

\* Python's s[a:b] for 0 <= a, 0 <= b.
Slice(s, a, b) == SubSeq(s, a + 1, Min2(b, Len(s)))

\* Python's s[:b].
Prefix(s, b) == Slice(s, 0, b)

AllDigits(s) == \A i \in 1..Len(s) : s[i] \in Digits

RECURSIVE ToInt(_)
ToInt(ds) ==
  IF ds = <<>> THEN 0
  ELSE 10 * ToInt(SubSeq(ds, 1, Len(ds) - 1)) + DigitVal[ds[Len(ds)]]

\* The length of the run of digits of s that starts at position i (1-based).
RECURSIVE DigitRun(_, _)
DigitRun(s, i) ==
  IF i <= Len(s) /\ s[i] \in Digits THEN 1 + DigitRun(s, i + 1) ELSE 0

\* ------------------------------------------------------------ is_valid

Directives == {"%Y", "%m", "%d", "%H", "%M", "%S"}

\* The regular expression _strptime compiles for each directive, on a run of
\* digits closed by a literal of the format or by the end of the text.
DirectiveOk(dir, txt) ==
  LET n == Len(txt)
      v == ToInt(txt)
  IN CASE dir = "%Y" -> n = 4
       [] dir = "%m" -> n \in {1, 2} /\ v \in 1..12
       [] dir = "%d" -> n \in {1, 2} /\ v \in 1..31
       [] dir = "%H" -> n \in {1, 2} /\ v \in 0..23
       [] dir = "%M" -> n \in {1, 2} /\ v \in 0..59
       [] dir = "%S" -> n \in {1, 2} /\ v \in 0..61

StrpFail == <<-1>>

\* strptime matches literals of the format regardless of case.
FoldCase(ch) == IF ch = "t" THEN "T" ELSE ch

\* The directive values of text s under format fmt, in the order of the
\* format, or StrpFail when the format does not match the whole text.
RECURSIVE StrpMatch(_, _, _, _)
StrpMatch(s, i, fmt, j) ==
  IF j > Len(fmt) THEN (IF i > Len(s) THEN <<>> ELSE StrpFail)
  ELSE IF fmt[j] \in Directives
       THEN LET n   == DigitRun(s, i)
                txt == SubSeq(s, i, i + n - 1)
            IN IF ~DirectiveOk(fmt[j], txt) THEN StrpFail
               ELSE LET rest == StrpMatch(s, i + n, fmt, j + 1)
                    IN IF rest = StrpFail THEN StrpFail
                       ELSE <<ToInt(txt)>> \o rest
       ELSE IF i <= Len(s) /\ FoldCase(s[i]) = FoldCase(fmt[j])
            THEN StrpMatch(s, i + 1, fmt, j + 1)
            ELSE StrpFail

IsLeap(y) == (y % 4 = 0 /\ y % 100 # 0) \/ y % 400 = 0

DaysInMonth(y, m) ==
  IF m = 2 THEN (IF IsLeap(y) THEN 29 ELSE 28)
  ELSE IF m \in {4, 6, 9, 11} THEN 30 ELSE 31

\* datetime(...) of the parsed values: the year, the day of the month and the
\* second are range-checked by the constructor.
DateOk(y, m, d) == y >= 1 /\ d <= DaysInMonth(y, m)

FMT_TS == << <<"%Y", "-", "%m", "-", "%d", "T", "%H", ":", "%M", ":", "%S">>,
             <<"%Y", "-", "%m", "-", "%d", "_", "%H", ":", "%M", ":", "%S">> >>

FMT_DT == << <<"%Y", "-", "%m", "-", "%d">>,
             <<"%Y", "/", "%m", "/", "%d">> >>

FMT_TI8 == << <<"%H", ":", "%M", ":", "%S">>,
              <<"%H", ".", "%M", ".", "%S">> >>

FMT_TI5 == << <<"%H", ":", "%M">> >>

\* datetime.strptime(s, f) returns without ValueError.
Strptime(s, f) ==
  LET v == StrpMatch(s, 1, f, 1)
  IN /\ v # StrpFail
     /\ CASE Len(v) = 6 -> DateOk(v[1], v[2], v[3]) /\ v[6] <= 59
          [] Len(v) = 3 /\ f[1] = "%Y" -> DateOk(v[1], v[2], v[3])
          [] Len(v) = 3 /\ f[1] = "%H" -> v[3] <= 59
          [] OTHER -> TRUE

is_valid(s, mode) ==
  LET ftm == CASE mode = "ts" -> FMT_TS
               [] mode = "dt" -> FMT_DT
               [] mode = "ti" /\ Len(s) = 8 -> FMT_TI8
               [] mode = "ti" /\ Len(s) = 5 -> FMT_TI5
               [] OTHER -> <<>>
  IN \E k \in 1..Len(ftm) : Strptime(s, ftm[k])

\* ------------------------------------------------- TS_RE, DT_RE, TM_RE

\* Two characters of s at 0-based offset a are digits with a value in lo..hi.
TwoDigits(s, a, lo, hi) ==
  /\ Len(s) >= a + 2
  /\ s[a + 1] \in Digits /\ s[a + 2] \in Digits
  /\ 10 * DigitVal[s[a + 1]] + DigitVal[s[a + 2]] \in lo..hi

CharIn(s, a, set) == Len(s) >= a + 1 /\ s[a + 1] \in set

TS_RE(s) ==
  /\ Len(s) >= 19
  /\ AllDigits(Slice(s, 0, 4))
  /\ CharIn(s, 4, {"-"}) /\ TwoDigits(s, 5, 1, 12)
  /\ CharIn(s, 7, {"-"}) /\ TwoDigits(s, 8, 1, 31)
  /\ CharIn(s, 10, {"T", "_"}) /\ TwoDigits(s, 11, 0, 23)
  /\ CharIn(s, 13, {":"}) /\ TwoDigits(s, 14, 0, 59)
  /\ CharIn(s, 16, {":"}) /\ TwoDigits(s, 17, 0, 59)

DT_RE(s) ==
  /\ Len(s) >= 10
  /\ AllDigits(Slice(s, 0, 4))
  /\ CharIn(s, 4, {"-", "/"}) /\ TwoDigits(s, 5, 1, 12)
  /\ CharIn(s, 7, {"-", "/"}) /\ TwoDigits(s, 8, 1, 31)

TM_RE(s) ==
  /\ Len(s) \in {5, 8}
  /\ TwoDigits(s, 0, 0, 23)
  /\ CharIn(s, 2, {":", "."}) /\ TwoDigits(s, 3, 0, 59)
  /\ Len(s) = 8 => (CharIn(s, 5, {":", "."}) /\ TwoDigits(s, 6, 0, 59))

\* ------------------------------------------------------- module globals

NoIndex == -1

ISO_PARTS == << [s1 |-> 0,  s2 |-> 4,  l |-> "y"],
                [s1 |-> 5,  s2 |-> 7,  l |-> "m"],
                [s1 |-> 8,  s2 |-> 10, l |-> "d"],
                [s1 |-> 11, s2 |-> 13, l |-> "H"],
                [s1 |-> 14, s2 |-> 16, l |-> "M"],
                [s1 |-> 17, s2 |-> 19, l |-> "S"] >>

DATE_PARTS == << [s1 |-> 0, s2 |-> 4,  l |-> "y"],
                 [s1 |-> 5, s2 |-> 7,  l |-> "m"],
                 [s1 |-> 8, s2 |-> 10, l |-> "d"] >>

TIME_PARTS == << [s1 |-> 0, s2 |-> 2, l |-> "H"],
                 [s1 |-> 3, s2 |-> 5, l |-> "M"],
                 [s1 |-> 6, s2 |-> 8, l |-> "S"] >>

UnitsTS == {"y", "m", "d", "H", "M", "S"}

UnitsD == {"y", "m", "d"}

UnitsT == {"H", "M", "S"}

\* The units in the order of the string 'ymdHMS' the source iterates over.
UnitOrder == <<"y", "m", "d", "H", "M", "S">>

\* The default of --add and the factor of get_shift(None).
ADDM == 0

SHFT == 1

\* The period of the pruning and validation step, and of the reset step.
PrunePeriod == 5

ResetPeriod == 100

\* The number of samples after which date_time_search gives up.
SearchLimit == 10

VARIABLES
  cfg,              \* the globals main reads: COLUMN, CSUM, XWIDTH, MULTIV, ...
  pc,               \* "read", "draw", "done", "crashed"
  fields,           \* the fields of the row read last
  counter_line, counter_value, counter_error, counter_skipped,
  err_lines, raw_values, long_numbers, long_floatpa, old_counter_value,
  colle, axisx, grups,
  compression_factor, available_braille_chars, val_for_plot,
  xaxis,            \* what draw_graph printed below the chart
  canvas,           \* the code points draw_graph printed, row by row
  ylabels,          \* the Y labels: legend_values, zend, vall and the
                    \* number of reductions run on them
  preview,          \* the lines islice has read ahead, and whether the
                    \* stream ended within them
  report            \* the count of values reported at an interrupt

vars == <<cfg, pc, fields, counter_line, counter_value, counter_error,
          counter_skipped, err_lines, raw_values, long_numbers, long_floatpa,
          old_counter_value, colle, axisx, grups, compression_factor,
          available_braille_chars, val_for_plot, xaxis, canvas, ylabels,
          preview, report>>

\* What only the preview and the interrupt change.
IoVars == <<preview, report>>

\* What the loop and the end of the stream change, and the globals.
LoopVars == <<cfg, fields, counter_line, counter_value, counter_error,
              counter_skipped, err_lines, raw_values, long_numbers,
              long_floatpa, old_counter_value, colle, axisx, grups,
              compression_factor, available_braille_chars, val_for_plot,
              xaxis>>

FILTERON == cfg.TARGET # <<>> \/ cfg.TFROM # <<>> \/ cfg.TTO # <<>>

EmptyLists(units) == [k \in units |-> <<>>]

\* main's dictionaries as they are built before the loop.
colle0 ==
  [u |-> TRUE, s |-> FALSE, f |-> <<0, 0>>, l |-> <<0, 0, 0, 0>>, e |-> 0,
   x |-> NoIndex, a |-> <<>>, X |-> <<>>,
   d |-> NoIndex, b |-> <<>>, D |-> <<>>,
   t |-> NoIndex, c |-> <<>>, T |-> <<>>]

axisx0(c) ==
  [u |-> FALSE,
   m |-> IF c.XWIDTH = 0 THEN c.termWidth ELSE c.XWIDTH,
   M |-> 0,
   i |-> [k \in UnitsTS |-> TRUE],
   e |-> <<>>,
   x |-> EmptyLists(UnitsTS), a |-> EmptyLists(UnitsTS),
   d |-> EmptyLists(UnitsD),  b |-> EmptyLists(UnitsD),
   t |-> EmptyLists(UnitsT),  c |-> EmptyLists(UnitsT)]

grups0 == [u |-> FALSE, l |-> FALSE, g |-> <<>>]

\* ---------------------------------------------------- date_time_search

\* [i for i, item in enumerate(g) if is_valid(item[:n], mode)]
Candidates(g, n, mode) ==
  SelectSeq([i \in 1..Len(g) |-> i - 1],
            LAMBDA i : is_valid(Prefix(g[i + 1], n), mode))

\* A variant of Found that leaves the found flag unset: the properties of the
\* detector must tell it from Found.
FoundUnmarked(st, c, cl) ==
  [colle |-> [st.colle EXCEPT !.f = <<cl, c + 1>>],
   axisx |-> [st.axisx EXCEPT !.u = TRUE],
   grups |-> IF cfg.CSUM # "" THEN [st.grups EXCEPT !.u = TRUE] ELSE st.grups]

\* "e['s'] = a['u'] = True; if CSUM: p['u'] = True; e['f'] = [cl, c+1]" of
\* lines 641-643, 650-652 and 658-660.  st = [colle, axisx, grups].
Found(st, c, cl) ==
  [colle |-> [st.colle EXCEPT !.s = TRUE, !.f = <<cl, c + 1>>],
   axisx |-> [st.axisx EXCEPT !.u = TRUE],
   grups |-> IF cfg.CSUM # "" THEN [st.grups EXCEPT !.u = TRUE] ELSE st.grups]

\* Lines 639-644: the only timestamp candidate is adopted.
AdoptTS(st, g, amx) ==
  [st EXCEPT !.colle.a = Prefix(g[amx[1] + 1], 19),
             !.colle.X = Prefix(g[amx[1] + 1], 19),
             !.colle.x = amx[1]]

\* Lines 646-653: the date candidates are counted and a single one adopted.
AdoptD(st, g, amd, c, cl) ==
  IF Len(amd) = 1
  THEN [Found([st EXCEPT !.colle.l[3] = @ + 1], c, cl)
          EXCEPT !.colle.b = Prefix(g[amd[1] + 1], 10),
                 !.colle.D = Prefix(g[amd[1] + 1], 10),
                 !.colle.d = amd[1]]
  ELSE [st EXCEPT !.colle.l[3] = @ + Len(amd)]

\* Lines 654-661: the same for the time candidates.
AdoptT(st, g, amt, c, cl) ==
  IF Len(amt) = 1
  THEN [Found([st EXCEPT !.colle.l[4] = @ + 1], c, cl)
          EXCEPT !.colle.c = Prefix(g[amt[1] + 1], 8),
                 !.colle.T = Prefix(g[amt[1] + 1], 8),
                 !.colle.t = amt[1]]
  ELSE [st EXCEPT !.colle.l[4] = @ + Len(amt)]

\* Lines 636-661 on the candidates of the row: the attempt is counted; a
\* single timestamp candidate suppresses the date and the time.
Attempt(st, g, c, cl, amx) ==
  IF Len(amx) = 1
  THEN AdoptTS(Found([st EXCEPT !.colle.l[1] = @ + 1, !.colle.l[2] = @ + 1],
                     c, cl), g, amx)
  ELSE AdoptT(AdoptD([st EXCEPT !.colle.l[1] = @ + 1,
                                !.colle.l[2] = @ + Len(amx)],
                     g, Candidates(g, 10, "dt"), c, cl),
              g, Candidates(g, 8, "ti"), c, cl)

date_time_search(c, e, a, g, p, cl) ==
  IF c = SearchLimit
  THEN [colle |-> [e EXCEPT !.u = FALSE], axisx |-> a, grups |-> p]
  ELSE Attempt([colle |-> e, axisx |-> a, grups |-> p], g, c, cl,
               Candidates(g, 19, "ts"))

\* A variant of SearchEnabled that does not test the found flag.
SearchWhileUsable(e) == e.u

\* main: "if not colle['s'] and colle['u']"
SearchEnabled(e) == ~e.s /\ e.u

\* ----------------------------------------------------- value_filtering

Ord ==
  "+" :> 43 @@ "-" :> 45 @@ "." :> 46 @@ "/" :> 47 @@
  "0" :> 48 @@ "1" :> 49 @@ "2" :> 50 @@ "3" :> 51 @@ "4" :> 52 @@
  "5" :> 53 @@ "6" :> 54 @@ "7" :> 55 @@ "8" :> 56 @@ "9" :> 57 @@
  ":" :> 58 @@ "T" :> 84 @@ "_" :> 95 @@ "t" :> 116 @@ "x" :> 120

\* Python's a <= b on texts.
RECURSIVE StrLe(_, _)
StrLe(a, b) ==
  IF a = <<>> THEN TRUE
  ELSE IF b = <<>> THEN FALSE
  ELSE IF a[1] # b[1] THEN Ord[a[1]] < Ord[b[1]]
  ELSE StrLe(Tail(a), Tail(b))

\* re.sub(r'\D', '', s)
OnlyDigits(s) == SelectSeq(s, LAMBDA ch : ch \in Digits)

DefaultDate == <<"0", "0", "0", "0", "-", "0", "0", "-", "0", "0">>

DefaultTime == <<"0", "0", ":", "0", "0", ":", "0", "0">>

\* The text value_filtering builds from separate date and time fields.
FilterStamp(f, c) ==
  LET d == IF c.d # NoIndex THEN Prefix(f[c.d + 1], 10) ELSE DefaultDate
  IN IF c.t # NoIndex THEN d \o <<"T">> \o Prefix(f[c.t + 1], 8)
     ELSE d \o <<"T">> \o DefaultTime

\* A field index of the detector lies beyond the fields of this row.
FieldIndexError(f, c) ==
  IF c.x # NoIndex THEN c.x >= Len(f)
  ELSE (c.d # NoIndex /\ c.d >= Len(f)) \/ (c.t # NoIndex /\ c.t >= Len(f))

\* Lines 726-755 on the text dt of the row: the from and to tests.
InRange(f, c, dt) ==
  /\ cfg.TFROM # <<>> \/ cfg.TTO # <<>>
  /\ \/ cfg.TFROM = <<>>
     \/ IF c.x # NoIndex
        THEN StrLe(cfg.TFROM, Prefix(f[c.x + 1], Len(cfg.TFROM)))
        ELSE StrLe(OnlyDigits(cfg.TFROM), OnlyDigits(Prefix(dt, Len(cfg.TFROM))))
  /\ \/ cfg.TTO = <<>>
     \/ IF c.x # NoIndex
        THEN StrLe(Prefix(f[c.x + 1], Len(cfg.TTO)), cfg.TTO)
        ELSE StrLe(OnlyDigits(Prefix(dt, Len(cfg.TTO))), OnlyDigits(cfg.TTO))

\* Lines 715-724 on the text dt of the row: the target test; a timestamp
\* field that misses the target falls through to the from and to tests.
Filtered(f, c, dt) ==
  IF cfg.TARGET # <<>>
  THEN IF c.x # NoIndex
       THEN Prefix(f[c.x + 1], Len(cfg.TARGET)) = cfg.TARGET \/ InRange(f, c, dt)
       ELSE OnlyDigits(Prefix(dt, Len(cfg.TARGET))) = OnlyDigits(cfg.TARGET)
  ELSE InRange(f, c, dt)

value_filtering(f, c) ==
  Filtered(f, c, IF c.x # NoIndex THEN <<>> ELSE FilterStamp(f, c))

\* ----------------------------------------------------------- date_time

\* A variant of Cascade without the toend flag: a part gets a record only
\* when its own slice differs.
RECURSIVE CascadeOwn(_, _, _, _, _, _, _, _)
CascadeOwn(parts, k, toend, old, new, c, act, rec) ==
  IF k > Len(parts) THEN rec
  ELSE CascadeOwn(parts, k + 1, toend, old, new, c, act,
         IF Slice(old, parts[k].s1, parts[k].s2)
              # Slice(new, parts[k].s1, parts[k].s2) /\ act[parts[k].l]
         THEN [pos |-> [rec.pos EXCEPT ![parts[k].l] = Append(@, c)],
               val |-> [rec.val EXCEPT ![parts[k].l] =
                          Append(@, Slice(new, parts[k].s1, parts[k].s2))]]
         ELSE rec)

\* The loop over the parts of a prefix: from the first part whose slice
\* differs on, every part whose unit is active gets the record (c, slice).
\* rec = [pos |-> positions by unit, val |-> values by unit].
RECURSIVE Cascade(_, _, _, _, _, _, _, _)
Cascade(parts, k, toend, old, new, c, act, rec) ==
  IF k > Len(parts) THEN rec
  ELSE
    LET p    == parts[k]
        hit  == toend \/ Slice(old, p.s1, p.s2) # Slice(new, p.s1, p.s2)
        rec2 == IF hit /\ act[p.l]
                THEN [pos |-> [rec.pos EXCEPT ![p.l] = Append(@, c)],
                      val |-> [rec.val EXCEPT ![p.l] =
                                 Append(@, Slice(new, p.s1, p.s2))]]
                ELSE rec
    IN Cascade(parts, k + 1, hit, old, new, c, act, rec2)

\* Lines 226-240 on the row's prefix cur.  st = [a |-> axisx, e |-> colle].
TrackTS(c, st, cur) ==
  IF cur # st.e.X
  THEN [a |-> [st.a EXCEPT
                 !.x = Cascade(ISO_PARTS, 1, FALSE, st.e.X, cur, c, st.a.i,
                               [pos |-> st.a.x, val |-> st.a.a]).pos,
                 !.a = Cascade(ISO_PARTS, 1, FALSE, st.e.X, cur, c, st.a.i,
                               [pos |-> st.a.x, val |-> st.a.a]).val],
        e |-> [st.e EXCEPT !.X = cur]]
  ELSE st

\* Lines 243-257 on the row's date prefix cur.
TrackD(c, st, cur) ==
  IF st.e.d # NoIndex /\ cur # st.e.D
  THEN [a |-> [st.a EXCEPT
                 !.d = Cascade(DATE_PARTS, 1, FALSE, st.e.D, cur, c, st.a.i,
                               [pos |-> st.a.d, val |-> st.a.b]).pos,
                 !.b = Cascade(DATE_PARTS, 1, FALSE, st.e.D, cur, c, st.a.i,
                               [pos |-> st.a.d, val |-> st.a.b]).val],
        e |-> [st.e EXCEPT !.D = cur]]
  ELSE st

\* Lines 259-273 on the row's time prefix cur.
TrackT(c, st, cur) ==
  IF st.e.t # NoIndex /\ cur # st.e.T
  THEN [a |-> [st.a EXCEPT
                 !.t = Cascade(TIME_PARTS, 1, FALSE, st.e.T, cur, c, st.a.i,
                               [pos |-> st.a.t, val |-> st.a.c]).pos,
                 !.c = Cascade(TIME_PARTS, 1, FALSE, st.e.T, cur, c, st.a.i,
                               [pos |-> st.a.t, val |-> st.a.c]).val],
        e |-> [st.e EXCEPT !.T = cur]]
  ELSE st

\* The field of index ix cut to n characters, or nothing without an index.
FieldPrefix(g, ix, n) == IF ix # NoIndex THEN Prefix(g[ix + 1], n) ELSE <<>>

\* Lines 226-273: the comparison of the row's prefixes with the remembered
\* ones.
Track(g, c, st) ==
  IF st.e.x # NoIndex
  THEN TrackTS(c, st, FieldPrefix(g, st.e.x, 19))
  ELSE TrackT(c, TrackD(c, st, FieldPrefix(g, st.e.d, 10)),
              FieldPrefix(g, st.e.t, 8))

\* A variant of OverCap whose threshold is one record higher.
OverCapByOne(list, a) == Len(list) > a.m + 1

\* The threshold of the pruning step: "len(a['x'][i]) > a['m']".
OverCap(list, a) == Len(list) > a.m

\* The units among `units` whose list is over the cap.
Cut(P, units, a) == {k \in units : OverCap(P[k], a)}

Clear(P, ks) == [k \in DOMAIN P |-> IF k \in ks THEN <<>> ELSE P[k]]

Deactivate(act, ks) == [k \in DOMAIN act |-> IF k \in ks THEN FALSE ELSE act[k]]

\* A variant of Prune that empties the position lists and keeps the value
\* lists.
PrunePositions(a, e) ==
  IF e.x # NoIndex
  THEN [a EXCEPT !.x = Clear(@, Cut(a.x, UnitsTS, a)),
                 !.i = Deactivate(@, Cut(a.x, UnitsTS, a))]
  ELSE [a EXCEPT
          !.t = IF e.t # NoIndex THEN Clear(@, Cut(a.t, UnitsT, a)) ELSE @,
          !.d = IF e.d # NoIndex THEN Clear(@, Cut(a.d, UnitsD, a)) ELSE @,
          !.i = Deactivate(@,
                  (IF e.t # NoIndex THEN Cut(a.t, UnitsT, a) ELSE {})
                    \cup (IF e.d # NoIndex THEN Cut(a.d, UnitsD, a) ELSE {}))]

\* Lines 277-297: every unit of the detected category with more records than
\* the cap loses its records and is deactivated.
Prune(a, e) ==
  IF e.x # NoIndex
  THEN [a EXCEPT !.x = Clear(@, Cut(a.x, UnitsTS, a)),
                 !.a = Clear(@, Cut(a.x, UnitsTS, a)),
                 !.i = Deactivate(@, Cut(a.x, UnitsTS, a))]
  ELSE [a EXCEPT
          !.t = IF e.t # NoIndex THEN Clear(@, Cut(a.t, UnitsT, a)) ELSE @,
          !.c = IF e.t # NoIndex THEN Clear(@, Cut(a.t, UnitsT, a)) ELSE @,
          !.d = IF e.d # NoIndex THEN Clear(@, Cut(a.d, UnitsD, a)) ELSE @,
          !.b = IF e.d # NoIndex THEN Clear(@, Cut(a.d, UnitsD, a)) ELSE @,
          !.i = Deactivate(@,
                  (IF e.t # NoIndex THEN Cut(a.t, UnitsT, a) ELSE {})
                    \cup (IF e.d # NoIndex THEN Cut(a.d, UnitsD, a) ELSE {}))]

\* Lines 299-311: the number of strict-format failures of this row.
FormatErrors(g, e) ==
  IF e.x # NoIndex
  THEN (IF TS_RE(Prefix(g[e.x + 1], 19)) THEN 0 ELSE 1)
  ELSE (IF e.d # NoIndex /\ ~DT_RE(Prefix(g[e.d + 1], 10)) THEN 1 ELSE 0)
     + (IF e.t # NoIndex /\ ~TM_RE(Prefix(g[e.t + 1], 8)) THEN 1 ELSE 0)

\* Lines 326-328.
ResetD(a, e) ==
  IF e.d # NoIndex /\ (\A k \in UnitsD : ~a.i[k])
  THEN [a EXCEPT !.d = EmptyLists(UnitsD)] ELSE a

\* Lines 330-332.
ResetT(a, e) ==
  IF e.t # NoIndex /\ (\A k \in UnitsT : ~a.i[k])
  THEN [a EXCEPT !.t = EmptyLists(UnitsT)] ELSE a

\* Lines 319-332: a category without any active unit gets fresh position
\* lists.
Reset(a, e) ==
  IF e.x # NoIndex
  THEN IF \A k \in UnitsTS : ~a.i[k]
       THEN [a EXCEPT !.x = EmptyLists(UnitsTS)] ELSE a
  ELSE ResetT(ResetD(a, e), e)

\* p['g'][key] += v, or p['g'][key] = v for a new key: an ordered mapping,
\* kept as the sequence of its <<key, sum>> items in insertion order.
BucketAdd(g, key, v) ==
  IF \E k \in 1..Len(g) : g[k][1] = key
  THEN [k \in 1..Len(g) |-> IF g[k][1] = key THEN <<key, g[k][2] + v>> ELSE g[k]]
  ELSE Append(g, <<key, v>>)

\* The slice end of the ISO_PARTS entry of unit l.
PartEnd(l) == (CHOOSE p \in {ISO_PARTS[k] : k \in 1..Len(ISO_PARTS)} : p.l = l).s2

\* "elif e['d']:" is false for None and for index 0 alike.
Truthy(ix) == ix # NoIndex /\ ix # 0

\* Lines 343-348 leave ts unbound: the loop below raises UnboundLocalError.
SumUnbound(e) ==
  /\ e.x = NoIndex
  /\ ~(e.d # NoIndex /\ e.t # NoIndex)
  /\ ~Truthy(e.d)
  /\ e.t = NoIndex

\* Lines 335-348: the text whose prefix is the key of the row's bucket.
SumStamp(g, e) ==
  IF e.x # NoIndex THEN g[e.x + 1]
  ELSE IF e.d # NoIndex /\ e.t # NoIndex
       THEN Prefix(g[e.d + 1], 10) \o <<"T">> \o Prefix(g[e.t + 1], 8)
  ELSE IF Truthy(e.d)
       THEN Prefix(g[e.d + 1], 10) \o <<"T">> \o DefaultTime
  ELSE DefaultDate \o <<"T">> \o Prefix(g[e.t + 1], 8)

\* Lines 336-341 and 349-354.
SumKey(g, e) == Prefix(SumStamp(g, e), PartEnd(cfg.CSUM))

\* A variant of Abandon that keeps the buckets.
AbandonKeepingBuckets(a, e, p) ==
  [crash |-> FALSE, axisx |-> a,
   colle |-> [e EXCEPT !.u = FALSE],
   grups |-> [p EXCEPT !.u = FALSE]]

\* Lines 313-317: a positive error counter switches the time handling and
\* the summation off and empties the buckets.
Abandon(a, e, p) ==
  [crash |-> FALSE, axisx |-> a,
   colle |-> [e EXCEPT !.u = FALSE],
   grups |-> [p EXCEPT !.u = FALSE, !.g = <<>>]]

\* Lines 334-354: the value is added to the bucket of the row.
Sum(g, v, a, e, p) ==
  IF e.u /\ e.s /\ cfg.CSUM # ""
  THEN IF SumUnbound(e)
       THEN [crash |-> TRUE, axisx |-> a, colle |-> e, grups |-> p]
       ELSE [crash |-> FALSE, axisx |-> a, colle |-> e,
             grups |-> [p EXCEPT !.g = BucketAdd(@, SumKey(g, e), v)]]
  ELSE [crash |-> FALSE, axisx |-> a, colle |-> e, grups |-> p]

\* Lines 313-332 after the pruning and the validation of a 5th sample.
Periodic(g, c, v, a, e, p) ==
  IF e.e > 0 THEN Abandon(a, e, p)
  ELSE Sum(g, v, IF c % ResetPeriod = 0 THEN Reset(a, e) ELSE a, e, p)

\* Lines 275-354 on the dictionaries st = [a, e] the comparison has left.
AfterTrack(g, c, v, st, p) ==
  IF c % PrunePeriod = 0
  THEN Periodic(g, c, v, Prune(st.a, st.e),
                [st.e EXCEPT !.e = @ + FormatErrors(g, st.e)], p)
  ELSE Sum(g, v, st.a, st.e, p)

\* date_time(g, c, a, v, e, p): [crash, axisx, colle, grups].  An uncaught
\* IndexError or UnboundLocalError (crash) ends the process.
date_time(g, c, a, v, e, p) ==
  IF FieldIndexError(g, e)
  THEN [crash |-> TRUE, axisx |-> a, colle |-> e, grups |-> p]
  ELSE AfterTrack(g, c, v, Track(g, c, [a |-> a, e |-> e]), p)

\* ------------------------------------------------------- main: one row

\* float(line) on the texts of the rows: an optional sign and decimal
\* digits give the number, any other text raises ValueError.
ParseFloat(s) ==
  LET body == IF s # <<>> /\ s[1] \in {"+", "-"} THEN Tail(s) ELSE s
      ok   == body # <<>> /\ AllDigits(body)
  IN [ok |-> ok,
      v  |-> IF ~ok THEN 0
             ELSE IF s[1] = "-" THEN 0 - ToInt(body) ELSE ToInt(body)]

\* len(str(int(value)))
RECURSIVE NatLen(_)
NatLen(n) == IF n < 10 THEN 1 ELSE 1 + NatLen(n \div 10)

IntStrLen(v) == IF v < 0 THEN 1 + NatLen(0 - v) ELSE NatLen(v)

\* Lines 959-961: the offset, the shift and the clamp to the overrides.
Adjust(x) ==
  LET v1 == (x + ADDM) * SHFT
      v2 == IF cfg.TOPVAL.set /\ v1 > cfg.TOPVAL.v THEN cfg.TOPVAL.v ELSE v1
  IN IF cfg.DOWNV.set /\ v2 < cfg.DOWNV.v THEN cfg.DOWNV.v ELSE v2

\* line.split() joined again: the line as main sees it without a column.
RECURSIVE JoinFields(_)
JoinFields(row) ==
  IF row = <<>> THEN <<>>
  ELSE IF Len(row) = 1 THEN row[1]
  ELSE row[1] \o <<" ">> \o JoinFields(Tail(row))

\* The result of the loop body: kind is "error" (lines 937-939 and 973-975),
\* "skipped" (946-947), "empty" (the test of line 956 fails), "value" or
\* "crash"; sample tells whether lines 966-967 appended the value.
Result(kind, st, sample, v) ==
  [kind |-> kind, colle |-> st.colle, axisx |-> st.axisx, grups |-> st.grups,
   sample |-> sample, value |-> v]

\* The result of a row whose value was appended: dt is what date_time
\* returned, an exception of date_time ends the process.
Tracked(dt, v) == Result(IF dt.crash THEN "crash" ELSE "value", dt, TRUE, v)

\* Lines 966-970: the value is appended and handed to date_time.
Ingest(row, st, v) ==
  IF st.colle.u /\ cfg.COLUMN # 0
  THEN Tracked(date_time(row, counter_value + 1, st.axisx, v, st.colle,
                         st.grups), v)
  ELSE Result("value", st, TRUE, v)

\* A variant of Parse that passes over a text that is no number.
ParseUncounted(row, st, line, num) ==
  IF line = <<>> \/ ~num.ok THEN Result("empty", st, FALSE, 0)
  ELSE Ingest(row, st, Adjust(num.v))

\* Lines 956-975 on the text of the selected field.
Parse(row, st, line, num) ==
  IF line = <<>> THEN Result("empty", st, FALSE, 0)
  ELSE IF ~num.ok THEN Result("error", st, FALSE, 0)
  ELSE Ingest(row, st, Adjust(num.v))

\* Lines 944-954 on the dictionaries the search has left.
AfterSearch(row, st) ==
  IF cfg.COLUMN # 0 /\ FILTERON /\ FieldIndexError(row, st.colle)
  THEN Result("crash", st, FALSE, 0)
  ELSE IF cfg.COLUMN # 0 /\ FILTERON /\ ~value_filtering(row, st.colle)
  THEN Result("skipped", st, FALSE, 0)
  ELSE IF cfg.COLUMN # 0
  THEN Parse(row, st, row[cfg.COLUMN], ParseFloat(row[cfg.COLUMN]))
  ELSE Parse(row, st, JoinFields(row), ParseFloat(JoinFields(row)))

\* The body of the loop of main for one row (lines 929-975).
LoopBody(row) ==
  IF cfg.COLUMN # 0 /\ Len(row) < cfg.COLUMN
  THEN Result("error", [colle |-> colle, axisx |-> axisx, grups |-> grups],
              FALSE, 0)
  ELSE IF cfg.COLUMN # 0 /\ SearchEnabled(colle)
  THEN AfterSearch(row, date_time_search(counter_value, colle, axisx, row,
                                         grups, counter_line + 1))
  ELSE AfterSearch(row, [colle |-> colle, axisx |-> axisx, grups |-> grups])

EndVars == <<compression_factor, available_braille_chars, val_for_plot,
             xaxis, canvas, ylabels, old_counter_value, long_floatpa,
             IoVars>>

ReadLine(row) ==
  /\ pc = "read"
  /\ \E r \in {LoopBody(row)} :
        /\ pc' = IF r.kind = "crash" THEN "crashed" ELSE "read"
        /\ counter_line' = counter_line + 1
        /\ fields' = IF cfg.COLUMN # 0 THEN row ELSE fields
        /\ colle' = r.colle
        /\ axisx' = r.axisx
        /\ grups' = r.grups
        /\ counter_error' = IF r.kind = "error" THEN counter_error + 1
                            ELSE counter_error
        /\ err_lines' = IF r.kind = "error" /\ Len(err_lines) < 4
                        THEN Append(err_lines, counter_line + 1)
                        ELSE err_lines
        /\ counter_skipped' = IF r.kind = "skipped" THEN counter_skipped + 1
                              ELSE counter_skipped
        /\ raw_values' = IF r.sample THEN Append(raw_values, r.value)
                         ELSE raw_values
        /\ counter_value' = IF r.sample THEN counter_value + 1
                            ELSE counter_value
        /\ long_numbers' = IF r.sample
                           THEN Max2(long_numbers, IntStrLen(r.value))
                           ELSE long_numbers
  /\ UNCHANGED <<cfg, EndVars>>

\* ------------------------------------------------ main: end of stream

\* p['g'].values()
BucketSums(g) == [k \in 1..Len(g) |-> g[k][2]]

\* The largest len(str(int(i))) over the sums (lines 367-369).
RECURSIVE Longest(_)
Longest(q) == IF q = <<>> THEN 0 ELSE Max2(IntStrLen(q[1]), Longest(Tail(q)))

\* A variant of group_by_time that leaves the count of the samples.
group_by_time_same_count(r, l, c, e, p) ==
  IF e.e = 0 /\ c > 0 /\ Len(p.g) > 0 /\ cfg.CSUM # ""
  THEN [raw |-> BucketSums(p.g), long |-> Longest(BucketSums(p.g)),
        count |-> c, p |-> [p EXCEPT !.l = TRUE]]
  ELSE [raw |-> r, long |-> l, count |-> c, p |-> p]

\* group_by_time(r, l, c, e, p): [raw, long, count, p].
group_by_time(r, l, c, e, p) ==
  IF e.e = 0 /\ c > 0 /\ Len(p.g) > 0 /\ cfg.CSUM # ""
  THEN [raw |-> BucketSums(p.g), long |-> Longest(BucketSums(p.g)),
        count |-> Len(p.g), p |-> [p EXCEPT !.l = TRUE]]
  ELSE [raw |-> r, long |-> l, count |-> c, p |-> p]

\* A variant of Groups that cuts the full groups only and drops the rest.
GroupsWhole(values_list, group_size) ==
  [k \in 1..(Len(values_list) \div group_size) |->
     Slice(values_list, (k - 1) * group_size, k * group_size)]

\* The slices values_list[i:i+group_size] of the loops of lines 188-189 and
\* 197-198, for i = 0, group_size, 2*group_size, ...
Groups(values_list, group_size) ==
  [k \in 1..((Len(values_list) + group_size - 1) \div group_size) |->
     Slice(values_list, (k - 1) * group_size, k * group_size)]

\* The boundaries "i+group_size" the two loops append to axisx['e'].
GroupEnds(values_list, group_size) ==
  [k \in 1..((Len(values_list) + group_size - 1) \div group_size) |->
     k * group_size]

RECURSIVE SumSeq(_)
SumSeq(q) == IF q = <<>> THEN 0 ELSE q[1] + SumSeq(Tail(q))

\* sum(group) / len(group), kept as the exact fraction.
Mean(group) == [num |-> SumSeq(group), den |-> Len(group)]

MeanOf(gs) == [k \in 1..Len(gs) |-> Mean(gs[k])]

\* A variant of AverageLoop that divides every sum by group_size.
RECURSIVE AverageLoopBySize(_, _, _, _)
AverageLoopBySize(values_list, group_size, i, acc) ==
  IF i >= Len(values_list) THEN acc
  ELSE AverageLoopBySize(values_list, group_size, i + group_size,
         [result |-> Append(acc.result,
                       [num |-> SumSeq(Slice(values_list, i, i + group_size)),
                        den |-> group_size]),
          e |-> Append(acc.e, i + group_size)])

\* The loop of lines 188-192 from index i on; acc = [result, e] holds the
\* means and the boundaries appended so far.
RECURSIVE AverageLoop(_, _, _, _)
AverageLoop(values_list, group_size, i, acc) ==
  IF i >= Len(values_list) THEN acc
  ELSE AverageLoop(values_list, group_size, i + group_size,
         [result |-> Append(acc.result,
                            Mean(Slice(values_list, i, i + group_size))),
          e |-> Append(acc.e, i + group_size)])

\* What average_values_in_groups returns and what it appends to axisx['e'].
Averaged(values_list, group_size) ==
  AverageLoop(values_list, group_size, 0, [result |-> <<>>, e |-> <<>>])

average_values_in_groups(values_list, group_size) ==
  Averaged(values_list, group_size).result

group_values_for_multi(values_list, group_size) ==
  Groups(values_list, group_size)

\* A rounding that sends every tie upwards.
RoundHalfUp(p, q) == (2 * p + q) \div (2 * q)

\* Python's round(p / q) for p >= 0, q > 0: to the nearest integer, a tie to
\* the even one.
Round(p, q) ==
  LET fl == p \div q
      r2 == 2 * (p % q)
  IN IF r2 < q THEN fl
     ELSE IF r2 > q THEN fl + 1
     ELSE IF fl % 2 = 0 THEN fl ELSE fl + 1

\* axisx['e'] of group_values_for_precisely (line 209).
PreciseEnds(n, width) ==
  [k \in 1..(2 * width) |-> Round(k * n, 2 * width)]

\* The slices raw[start:end] of lines 216-220 for the boundaries e.
SlicesAt(raw, e) ==
  [k \in 1..Len(e) |-> Slice(raw, IF k = 1 THEN 0 ELSE e[k - 1], e[k])]

group_values_for_precisely(raw, width) ==
  SlicesAt(raw, PreciseEnds(Len(raw), width))

\* Lines 991-994.
TermWidth(room) ==
  IF cfg.XWIDTH # 0 /\ cfg.XWIDTH < room THEN cfg.XWIDTH ELSE room

\* Lines 996-998.
AtLeastOne(avail) == IF avail < 1 THEN 1 ELSE avail

\* Lines 991-998: the plot width main takes as available.
AvailableChars(long, floatpa) ==
  AtLeastOne(IF cfg.SHOWLEGEND
             THEN TermWidth(cfg.termWidth - (long + 1 + floatpa + 2 + 2))
             ELSE cfg.termWidth - 2)

\* Lines 1000-1004.
CompressionFactor(n, max_data_columns) ==
  IF n > max_data_columns
  THEN IF (n + max_data_columns - 1) \div max_data_columns = 0 THEN 1
       ELSE (n + max_data_columns - 1) \div max_data_columns
  ELSE 1

\* Lines 986-988: the legend columns of the Y axis.
LongNumbers(long) == IF long < 6 THEN 6 ELSE long

LongFloatpa(long, floatpa) == IF long < 6 THEN 8 - long ELSE floatpa

\* Lines 1008-1014: the units to plot.
Compress(raw, cf) ==
  IF cfg.MULTIV
  THEN IF cfg.XWIDTH = 0
       THEN group_values_for_multi(raw, cf)
       ELSE group_values_for_precisely(raw, cfg.XWIDTH)
  ELSE average_values_in_groups(raw, cf)

\* axisx['e'] after the chosen function: the two loops append to the list,
\* group_values_for_precisely replaces it.
UnitEnds(e, raw, cf) ==
  IF cfg.MULTIV /\ cfg.XWIDTH # 0
  THEN PreciseEnds(Len(raw), cfg.XWIDTH)
  ELSE IF cfg.MULTIV THEN e \o GroupEnds(raw, cf)
  ELSE e \o Averaged(raw, cf).e

\* Lines 977-1014: the bucket sums replace the samples, the widths are
\* computed and the samples are compressed.
EndOfStream ==
  /\ pc = "read"
  /\ \E gr \in {IF grups.u
                THEN group_by_time(raw_values, long_numbers, counter_value,
                                   colle, grups)
                ELSE [raw |-> raw_values, long |-> long_numbers,
                      count |-> counter_value, p |-> grups]} :
     \E av \in {AvailableChars(LongNumbers(gr.long),
                               LongFloatpa(gr.long, long_floatpa))} :
     \E cf \in {CompressionFactor(Len(gr.raw), av * 2)} :
        /\ old_counter_value' = counter_value
        /\ raw_values' = gr.raw
        /\ long_numbers' = LongNumbers(gr.long)
        /\ long_floatpa' = LongFloatpa(gr.long, long_floatpa)
        /\ counter_value' = gr.count
        /\ grups' = gr.p
        /\ IF gr.raw # <<>>
           THEN /\ pc' = "draw"
                /\ available_braille_chars' = av
                /\ compression_factor' = cf
                /\ val_for_plot' = Compress(gr.raw, cf)
                /\ axisx' = [axisx EXCEPT !.e = UnitEnds(@, gr.raw, cf)]
           ELSE /\ pc' = "done"
                /\ UNCHANGED <<available_braille_chars, compression_factor,
                               val_for_plot, axisx>>
  /\ UNCHANGED <<cfg, fields, counter_line, counter_error, counter_skipped,
                 err_lines, colle, xaxis, canvas, ylabels, IoVars>>

\* ---------------------------------------------------------- draw_graph

\* The dictionary comprehensions of lines 388-398: the units, in the order
\* 'ymdHMS', whose list has more than 0 and fewer than ml records.
Qualifying(lists, ml) ==
  SelectSeq(UnitOrder,
            LAMBDA k : k \in DOMAIN lists
                         /\ 0 < Len(lists[k]) /\ Len(lists[k]) < ml)

\* A variant of MaxKey that returns the last key of the largest length.
RECURSIVE MaxKeyLast(_, _)
MaxKeyLast(keys, lists) ==
  IF Len(keys) = 1 THEN keys[1]
  ELSE LET rest == MaxKeyLast(Tail(keys), lists)
       IN IF Len(lists[keys[1]]) > Len(lists[rest]) THEN keys[1] ELSE rest

\* max(x, key=lambda k: len(x[k])): the first key of the largest length.
RECURSIVE MaxKey(_, _)
MaxKey(keys, lists) ==
  IF Len(keys) = 1 THEN keys[1]
  ELSE LET rest == MaxKey(Tail(keys), lists)
       IN IF Len(lists[keys[1]]) >= Len(lists[rest]) THEN keys[1] ELSE rest

\* A variant of BinOf that goes on past a boundary equal to the point.
RECURSIVE BinOfPast(_, _, _)
BinOfPast(point, ends, i) ==
  IF i >= Len(ends) - 1 THEN Len(ends) - 1
  ELSE IF point >= ends[i + 1] THEN BinOfPast(point, ends, i + 1) ELSE i

\* Lines 421-424: the index of the first boundary not below the point, or
\* the last index.
RECURSIVE BinOf(_, _, _)
BinOf(point, ends, i) ==
  IF i >= Len(ends) - 1 THEN Len(ends) - 1
  ELSE IF point > ends[i + 1] THEN BinOf(point, ends, i + 1) ELSE i

\* Lines 417-433: the tick masks of line1, one per character cell (0 for a
\* blank).
RECURSIVE TickLine(_, _, _)
TickLine(positions, ends, line1) ==
  IF positions = <<>> THEN line1
  ELSE LET i   == BinOf(positions[1], ends, 0)
           col == i \div 2
           bit == IF i % 2 = 0 THEN 1 ELSE 8
           cur == line1[col + 1]
           new == IF (cur \div bit) % 2 = 1 THEN cur ELSE cur + bit
       IN TickLine(Tail(positions), ends, [line1 EXCEPT ![col + 1] = new])

Merge(f, g) == [k \in DOMAIN f \cup DOMAIN g |->
                  IF k \in DOMAIN f THEN f[k] ELSE g[k]]

NoAxis == [kind |-> "none", lkey |-> "", vkey |-> "", line1 |-> <<>>]

BareAxis == [NoAxis EXCEPT !.kind = "bare"]

\* Lines 400-433 on the position lists xl and the value lists vl of the
\* detected fields, and on their units x and v of a count within 0 < n < ml.
Legend(xl, vl, x, v, ends, b) ==
  IF Len(x) = 0 THEN BareAxis
  ELSE IF Len(v) = 0 THEN [NoAxis EXCEPT !.kind = "crash"]
  ELSE [kind |-> "ticks", lkey |-> MaxKey(x, xl), vkey |-> MaxKey(v, vl),
        line1 |-> TickLine(xl[MaxKey(x, xl)], ends, [k \in 1..b |-> 0])]

\* Lines 386-398 on the lists of the detected fields.
Select(xl, vl, ends, b) ==
  Legend(xl, vl, Qualifying(xl, b \div 2), Qualifying(vl, b \div 2), ends, b)

\* print_x_legend(a, e, p, l, b, c): the axis line (the caption of the
\* summation, a bare line, or the line of the chosen unit) and the ticks.
print_x_legend(a, e, b) ==
  IF cfg.CSUM # "" THEN [NoAxis EXCEPT !.kind = "sum"]
  ELSE IF b < 10 THEN BareAxis
  ELSE IF e.x # NoIndex THEN Select(a.x, a.a, a.e, b)
  ELSE Select(Merge(a.d, a.t), Merge(a.b, a.c), a.e, b)

\* Lines 621-627: the X axis below a chart of b character cells.
XAxis(b) ==
  IF ~cfg.SHOWLEGEND THEN NoAxis
  ELSE IF axisx.u THEN print_x_legend(axisx, colle, b)
  ELSE BareAxis

\* int(p / q) for q # 0: the quotient cut towards zero.
Trunc(p, q) ==
  IF (p >= 0) = (q > 0)
  THEN (IF p >= 0 THEN p ELSE 0 - p) \div (IF q > 0 THEN q ELSE 0 - q)
  ELSE 0 - ((IF p >= 0 THEN p ELSE 0 - p) \div (IF q > 0 THEN q ELSE 0 - q))

\* A variant of pixel_pos that rounds the position to the nearest pixel.
pixel_pos_nearest(value, min_val, max_val, G_HEIGHT) ==
  IF max_val = min_val THEN 2 * G_HEIGHT
  ELSE Trunc(2 * (value.num - min_val * value.den) * (G_HEIGHT * 4 - 1)
               + value.den * (max_val - min_val),
             2 * value.den * (max_val - min_val))

\* Lines 167-176 on the fraction value = num/den: the pixel counted from
\* the bottom, int(normalized * (total_pixels - 1)); int(0.5 * (4h - 1)) is
\* 2h - 1.  The quotient is taken exactly; the configurations below keep to
\* heights and samples on which the float product is cut to the same pixel.
pixel_pos(value, min_val, max_val, G_HEIGHT) ==
  IF max_val = min_val THEN 2 * G_HEIGHT - 1
  ELSE Trunc((value.num - min_val * value.den) * (G_HEIGHT * 4 - 1),
             value.den * (max_val - min_val))

\* Lines 178-184: the dot within the text row, or NoIndex for None.
get_dot_for_value(value, row, min_val, max_val, G_HEIGHT) ==
  IF G_HEIGHT - 1 - (pixel_pos(value, min_val, max_val, G_HEIGHT) \div 4)
       # row
  THEN NoIndex
  ELSE pixel_pos(value, min_val, max_val, G_HEIGHT) % 4

\* create_braille_char on the set of the indices i with dots[i] true.
create_braille_char(dots) ==
  10240 + (IF 0 \in dots THEN 1 ELSE 0) + (IF 1 \in dots THEN 2 ELSE 0)
        + (IF 2 \in dots THEN 4 ELSE 0) + (IF 3 \in dots THEN 8 ELSE 0)
        + (IF 4 \in dots THEN 16 ELSE 0) + (IF 5 \in dots THEN 32 ELSE 0)
        + (IF 6 \in dots THEN 64 ELSE 0) + (IF 7 \in dots THEN 128 ELSE 0)

\* A left dot_map that counts the dots of a cell from the top.
LeftMapFromTop == <<0, 1, 2, 6>>

\* dot_map of line 605 and of line 615.
LeftMap == <<6, 2, 1, 0>>

RightMap == <<7, 5, 4, 3>>

\* values_to_process of lines 600 and 610: the list of a unit under -m, or
\* the one mean.
ColumnValues(u) ==
  IF cfg.MULTIV THEN [k \in 1..Len(u) |-> [num |-> u[k], den |-> 1]]
  ELSE <<u>>

\* Lines 602-606 and 612-616: the dots a unit sets in the text row.
DotsOf(values, dot_map, row, min_val, max_val) ==
  { dot_map[get_dot_for_value(values[k], row, min_val, max_val,
                              cfg.YHEIGHT) + 1] :
      k \in { j \in 1..Len(values) :
                get_dot_for_value(values[j], row, min_val, max_val,
                                  cfg.YHEIGHT) # NoIndex } }

\* Lines 542-551: the extrema of the samples unless an override is given.
MinVal(raw) ==
  IF cfg.DOWNV.set THEN cfg.DOWNV.v
  ELSE CHOOSE x \in {raw[k] : k \in 1..Len(raw)} :
         \A k \in 1..Len(raw) : x <= raw[k]

MaxVal(raw) ==
  IF cfg.TOPVAL.set THEN cfg.TOPVAL.v
  ELSE CHOOSE x \in {raw[k] : k \in 1..Len(raw)} :
         \A k \in 1..Len(raw) : x >= raw[k]

\* Lines 596-618: the cell of the units i and i + 1 (counted from 0).
Cell(vfp, row, i, min_val, max_val) ==
  create_braille_char(
    DotsOf(ColumnValues(vfp[i + 1]), LeftMap, row, min_val, max_val)
      \cup (IF i + 1 < Len(vfp)
            THEN DotsOf(ColumnValues(vfp[i + 2]), RightMap, row, min_val,
                        max_val)
            ELSE {}))

\* Lines 587-619: the rows of cells draw_graph prints.
Canvas(vfp, min_val, max_val) ==
  [r \in 1..cfg.YHEIGHT |->
     [c \in 1..((Len(vfp) + 1) \div 2) |->
        Cell(vfp, r - 1, 2 * (c - 1), min_val, max_val)]]

\* draw_graph: the rows of the chart and the X axis below them.
DrawGraph ==
  /\ pc = "draw"
  /\ canvas' = Canvas(val_for_plot, MinVal(raw_values), MaxVal(raw_values))
  /\ \E ax \in {XAxis((Len(val_for_plot) + 1) \div 2)} :
        /\ xaxis' = ax
        /\ axisx' = IF cfg.SHOWLEGEND
                    THEN [axisx EXCEPT !.M = (Len(val_for_plot) + 1) \div 2]
                    ELSE axisx
        /\ pc' = IF ax.kind = "crash" THEN "crashed" ELSE "done"
  /\ UNCHANGED <<cfg, fields, counter_line, counter_value, counter_error,
                 counter_skipped, err_lines, raw_values, long_numbers,
                 long_floatpa, old_counter_value, colle, grups,
                 compression_factor, available_braille_chars, val_for_plot,
                 ylabels, IoVars>>

\* ------------------------------------------- preview and interrupt

\* The lines of islice(datain, 10).
PreviewSize == 10

\* Line 923, one line of the stream read ahead.
PreviewLine ==
  /\ pc = "preview" /\ preview.n < PreviewSize
  /\ preview' = [preview EXCEPT !.n = @ + 1]
  /\ UNCHANGED <<pc, LoopVars, canvas, ylabels, report>>

\* Line 923, the end of islice: the stream ended (eof), or ten lines are
\* read.
PreviewEnd(eof) ==
  /\ pc = "preview"
  /\ IF eof THEN preview.n < PreviewSize ELSE preview.n = PreviewSize
  /\ preview' = [preview EXCEPT !.eof = eof]
  /\ pc' = "read"
  /\ UNCHANGED <<LoopVars, canvas, ylabels, report>>

\* SIGINT: _handle_sigint raises KeyboardInterrupt where main stands.  The
\* preview is read outside the try of line 927, so there the exception ends
\* the process with a traceback; in the loop and in draw_graph the handler
\* of lines 1030-1032 reports len(raw_values) and exits with 130, after
\* draw_graph has printed some of its rows.
Interrupt ==
  /\ \/ /\ pc = "preview"
        /\ pc' = "killed"
        /\ UNCHANGED <<report, canvas>>
     \/ /\ pc = "read"
        /\ pc' = "interrupted"
        /\ report' = Len(raw_values)
        /\ UNCHANGED canvas
     \/ /\ pc = "draw"
        /\ pc' = "interrupted"
        /\ report' = Len(raw_values)
        /\ \E n \in 0..cfg.YHEIGHT :
             canvas' = SubSeq(Canvas(val_for_plot, MinVal(raw_values),
                                     MaxVal(raw_values)), 1, n)
  /\ UNCHANGED <<LoopVars, ylabels, preview>>

\* ------------------------------------------------------ the Y labels

\* The fraction digits a label is cut from: a label value is a number of
\* thousandths.
Scale == 3

NoLabels == [legend_values |-> <<>>, zend |-> 0, vall |-> <<>>, runs |-> 0]

\* The digits of n, padded on the left to the width f.
RECURSIVE Padded(_, _)
Padded(n, f) ==
  IF f = 0 THEN <<>> ELSE Append(Padded(n \div 10, f - 1), n % 10)

\* f"{v:.{f}f}" of v = k thousandths, k >= 0 and f <= Scale: the integer
\* part and the f fraction digits of k rounded at 10^-f.  The labels drawn
\* below are no ties of the rounding, where the digits would depend on the
\* binary expansion of the float.
Format(k, f) ==
  [ip   |-> Round(k, 10 ^ (Scale - f)) \div (10 ^ f),
   frac |-> Padded(Round(k, 10 ^ (Scale - f)) % (10 ^ f), f)]

\* Lines 518-523: pos + 1 for the first position from pos on at which the
\* fractions differ, a missing digit being '0'; 0 when there is none.
RECURSIVE FirstDiff(_, _, _)
FirstDiff(frac1, frac2, pos) ==
  IF pos >= Max2(Len(frac1), Len(frac2)) THEN 0
  ELSE IF (IF pos < Len(frac1) THEN frac1[pos + 1] ELSE 0)
            # (IF pos < Len(frac2) THEN frac2[pos + 1] ELSE 0)
  THEN pos + 1
  ELSE FirstDiff(frac1, frac2, pos + 1)

\* Lines 509-523 from the pair i on (counted from 1): max_needed.
RECURSIVE MaxNeeded(_, _)
MaxNeeded(p, i) ==
  IF i >= Len(p) THEN 0
  ELSE Max2(IF p[i].ip # p[i + 1].ip THEN 0
            ELSE FirstDiff(p[i].frac, p[i + 1].frac, 0),
            MaxNeeded(p, i + 1))

reducef(p, f) == IF Len(p) < 2 THEN f ELSE Min2(MaxNeeded(p, 1), f)

\* Line 583: the labels formatted at zend.
FormatLabels ==
  /\ pc = "format"
  /\ ylabels' = [ylabels EXCEPT
                   !.vall = [k \in 1..Len(ylabels.legend_values) |->
                               Format(ylabels.legend_values[k],
                                      ylabels.zend)]]
  /\ pc' = "reduce"
  /\ UNCHANGED <<cfg, fields, counter_line, counter_value, counter_error,
                 counter_skipped, err_lines, raw_values, long_numbers,
                 long_floatpa, old_counter_value, colle, axisx, grups,
                 compression_factor, available_braille_chars, val_for_plot,
                 xaxis, canvas, IoVars>>

\* Line 584: zend = reducef(vall, zend).
ReduceLabels(more) ==
  /\ pc = "reduce"
  /\ ylabels' = [ylabels EXCEPT !.zend = reducef(ylabels.vall, ylabels.zend),
                                !.runs = @ + 1]
  /\ pc' = IF more THEN "format" ELSE "done"
  /\ UNCHANGED <<cfg, fields, counter_line, counter_value, counter_error,
                 counter_skipped, err_lines, raw_values, long_numbers,
                 long_floatpa, old_counter_value, colle, axisx, grups,
                 compression_factor, available_braille_chars, val_for_plot,
                 xaxis, canvas, IoVars>>

\* --------------------------------------------------------------- inputs

D2(n) == <<DigitChar[((n \div 10) % 10) + 1], DigitChar[(n % 10) + 1]>>

D4(n) == D2(n \div 100) \o D2(n % 100)

\* The text YYYY-MM-DDTHH:MM:SS of six numbers.
Stamp(y, m, d, H, M, S) ==
  D4(y) \o <<"-">> \o D2(m) \o <<"-">> \o D2(d) \o <<"T">>
        \o D2(H) \o <<":">> \o D2(M) \o <<":">> \o D2(S)

Date(y, m, d) == D4(y) \o <<"-">> \o D2(m) \o <<"-">> \o D2(d)

Time(H, M, S) == D2(H) \o <<":">> \o D2(M) \o <<":">> \o D2(S)

NoText == <<>>

Unset == [set |-> FALSE, v |-> 0]

\* The globals of a run without options, on a terminal of 80 columns.
Defaults ==
  [COLUMN |-> 0, CSUM |-> "", XWIDTH |-> 0, MULTIV |-> FALSE,
   SHOWLEGEND |-> TRUE, TOPVAL |-> Unset, DOWNV |-> Unset,
   TARGET |-> NoText, TFROM |-> NoText, TTO |-> NoText, termWidth |-> 80,
   YHEIGHT |-> 7]

\* The state main builds before its loop (lines 833-888), at the position
\* at, with the configuration drawn from cfgs and the labels from labels.
Begin(cfgs, at, labels) ==
  /\ cfg \in cfgs
  /\ pc = at
  /\ fields = <<>>
  /\ counter_line = 0
  /\ counter_value = 0
  /\ counter_error = 0
  /\ counter_skipped = 0
  /\ err_lines = <<>>
  /\ raw_values = <<>>
  /\ long_numbers = 0
  /\ long_floatpa = 2
  /\ old_counter_value = 0
  /\ colle = colle0
  /\ axisx = axisx0(cfg)
  /\ grups = grups0
  /\ compression_factor = 1
  /\ available_braille_chars = 0
  /\ val_for_plot = <<>>
  /\ xaxis = NoAxis
  /\ canvas = <<>>
  /\ ylabels \in labels
  /\ preview = [n |-> 0, eof |-> FALSE]
  /\ report = NoIndex

\* The state at the head of the loop of line 928; to the loop it makes no
\* difference which of its lines the preview had read ahead.
InitWith(cfgs) == Begin(cfgs, "read", {NoLabels})

\* ------------------------------------------- the tracker: specification

\* The longest stream of rows of Spec.
MaxLines == 6

\* Rows "<timestamp> <value>" read with -c 2: the seconds, then the day
\* change; the last row has a month that fails the strict format.
TsRows ==
  { <<Stamp(2024, 1, 1, 0, 0, 0), <<"1">>>>,
    <<Stamp(2024, 1, 1, 0, 0, 1), <<"1">>>>,
    <<Stamp(2024, 1, 2, 0, 0, 0), <<"2">>>>,
    <<Stamp(2024, 13, 1, 0, 0, 0), <<"1">>>> }

\* Rows "<date> <time> <value>" read with -c 3.
DtRows ==
  { <<Date(2024, 1, 1), Time(0, 0, 0), <<"1">>>>,
    <<Date(2024, 1, 2), Time(0, 0, 0), <<"1">>>>,
    <<Date(2024, 1, 2), Time(0, 0, 1), <<"2">>>> }

\* -c 2 -x 1 -y 2; -c 2 -x 10 -m; -c 2 -s d; -c 3 -x 2.
TrackCfgs ==
  { [Defaults EXCEPT !.COLUMN = 2, !.XWIDTH = 1, !.YHEIGHT = 2],
    [Defaults EXCEPT !.COLUMN = 2, !.XWIDTH = 10, !.MULTIV = TRUE],
    [Defaults EXCEPT !.COLUMN = 2, !.CSUM = "d"],
    [Defaults EXCEPT !.COLUMN = 3, !.XWIDTH = 2] }

TrackRows == IF cfg.COLUMN = 2 THEN TsRows ELSE DtRows

Init == InitWith(TrackCfgs)

Next ==
  \/ \E row \in TrackRows : counter_line < MaxLines /\ ReadLine(row)
  \/ EndOfStream
  \/ DrawGraph

Spec == Init /\ [][Next]_vars

\* ------------------------------------------ the detector: specification

MaxLinesDetect == 3

\* A text strptime accepts as a timestamp although its parts are not padded.
LenientStamp ==
  <<"2", "0", "2", "4", "-", "1", "-", "1", "T", "0", ":", "0", ":", "0">>

Junk == <<"x">>

\* Rows "<value> <field> <field>" read with -c 1, and a row of the value
\* alone.
DetectRows ==
  { <<<<"1">>, f2, f3>> :
      f2 \in {Date(2024, 1, 1), Stamp(2024, 1, 1, 0, 0, 0), Junk},
      f3 \in {Date(2024, 1, 2), Time(0, 0, 0), LenientStamp, Junk} }
    \cup { <<<<"1">>>> }

DetectCfgs ==
  { [Defaults EXCEPT !.COLUMN = 1],
    [Defaults EXCEPT !.COLUMN = 1, !.CSUM = "d"] }

InitDetect == InitWith(DetectCfgs)

NextDetect ==
  \/ \E row \in DetectRows : counter_line < MaxLinesDetect /\ ReadLine(row)
  \/ EndOfStream
  \/ DrawGraph

SpecDetect == InitDetect /\ [][NextDetect]_vars

\* ------------------------------- the limit of the search: specification

MaxLinesSearch == 12

\* Rows without any time field read with -c 1: a text that is no number and
\* a number.
SearchRows == { <<Junk>>, <<<<"1">>>> }

\* -c 1, and -c 1 with the target filter 2024.
SearchCfgs ==
  { [Defaults EXCEPT !.COLUMN = 1],
    [Defaults EXCEPT !.COLUMN = 1, !.TARGET = <<"2", "0", "2", "4">>] }

InitSearch == InitWith(SearchCfgs)

NextSearch ==
  \/ \E row \in SearchRows : counter_line < MaxLinesSearch /\ ReadLine(row)
  \/ EndOfStream
  \/ DrawGraph

SpecSearch == InitSearch /\ [][NextSearch]_vars

\* ------------------------------------------ the reset step: specification

MaxLinesLong == 100

\* Two rows "<timestamp> <value>" whose timestamps differ in every part.
LongRows ==
  { <<Stamp(2024, 1, 1, 0, 0, 0), <<"1">>>>,
    <<Stamp(2025, 2, 2, 1, 1, 1), <<"1">>>> }

\* -c 2 -x 1
LongCfgs == { [Defaults EXCEPT !.COLUMN = 2, !.XWIDTH = 1] }

InitLong == InitWith(LongCfgs)

NextLong ==
  \/ \E row \in LongRows : counter_line < MaxLinesLong /\ ReadLine(row)
  \/ EndOfStream
  \/ DrawGraph

SpecLong == InitLong /\ [][NextLong]_vars

\* ------------------------------------------- the tick line: specification

MaxLinesTicks == 38

MinLinesTicks == 35

\* The seconds of the timestamps of a stream.
TickSeconds == {0, 1, 2}

\* A row "<timestamp> 1" of the second s.
TickRow(s) == <<Stamp(2024, 1, 1, 0, 0, s), <<"1">>>>

\* The timestamp of the row before or the one a second later, of a stream
\* that starts at second 0 and stays within TickSeconds.
TickRows ==
  IF colle.X = NoText THEN {TickRow(0)}
  ELSE {TickRow(t) : t \in {u \in TickSeconds :
                              u - DigitVal[colle.X[19]] \in {0, 1}}}

\* -c 2 -x 18; -c 2 -m on a terminal of 31 columns, which leaves 18 for the
\* plot; -c 2 -m -x 10.
TickCfgs ==
  { [Defaults EXCEPT !.COLUMN = 2, !.XWIDTH = 18],
    [Defaults EXCEPT !.COLUMN = 2, !.MULTIV = TRUE, !.termWidth = 31],
    [Defaults EXCEPT !.COLUMN = 2, !.MULTIV = TRUE, !.XWIDTH = 10] }

InitTicks == InitWith(TickCfgs)

\* Streams of MinLinesTicks to MaxLinesTicks rows.
NextTicks ==
  \/ \E row \in TickRows : counter_line < MaxLinesTicks /\ ReadLine(row)
  \/ counter_line >= MinLinesTicks /\ EndOfStream
  \/ DrawGraph

SpecTicks == InitTicks /\ [][NextTicks]_vars

\* ------------------------------------------ the compressor: specification

MaxLinesCompress == 6

\* Lines of one number each, read without -c.
CompressRows == { <<<<"1">>>>, <<<<"2">>>> }

\* Terminals of 14 and 15 columns; -y 2; no -x, -x 1 and -x 3; with and
\* without -m and the legend.
CompressCfgs ==
  { [Defaults EXCEPT !.termWidth = w, !.XWIDTH = x, !.MULTIV = m,
                     !.SHOWLEGEND = l, !.YHEIGHT = 2] :
      w \in {14, 15}, x \in {0, 1, 3}, m \in BOOLEAN, l \in BOOLEAN }

InitCompress == InitWith(CompressCfgs)

NextCompress ==
  \/ \E row \in CompressRows : counter_line < MaxLinesCompress /\ ReadLine(row)
  \/ EndOfStream
  \/ DrawGraph

SpecCompress == InitCompress /\ [][NextCompress]_vars

--------------------------------------------------------------------------
\* Up to ten lines of one number each with -m and -x 1, -x 2 or -x 3.

MaxLinesPrecise == 10

PreciseCfgs ==
  { [Defaults EXCEPT !.XWIDTH = x, !.MULTIV = TRUE] : x \in {1, 2, 3} }

InitPrecise == InitWith(PreciseCfgs)

NextPrecise ==
  \/ \E row \in CompressRows : counter_line < MaxLinesPrecise /\ ReadLine(row)
  \/ EndOfStream
  \/ DrawGraph

SpecPrecise == InitPrecise /\ [][NextPrecise]_vars

--------------------------------------------------------------------------
\* The canvas: up to three lines of one number each with -y 2 or -y 3, with
\* and without -m, -x 1, -t 5 and -b 5; and rows "<timestamp> <value>" read
\* with -c 2d -y 2, with and without -t 5.

MaxLinesDraw == 3

Five == [set |-> TRUE, v |-> 5]

DrawCfgs ==
  { [Defaults EXCEPT !.YHEIGHT = h, !.MULTIV = m, !.XWIDTH = x,
                     !.TOPVAL = t, !.DOWNV = b] :
      h \in {2, 3}, m \in BOOLEAN, x \in {0, 1},
      t \in {Unset, Five}, b \in {Unset, Five} }
    \cup { [Defaults EXCEPT !.COLUMN = 2, !.CSUM = "d", !.YHEIGHT = 2,
                            !.TOPVAL = t] : t \in {Unset, Five} }

DrawRows ==
  IF cfg.COLUMN = 0 THEN { <<<<"0">>>>, <<<<"5">>>>, <<<<"1", "0">>>> }
  ELSE { <<Stamp(2024, 1, 1, 0, 0, 0), <<"5">>>>,
         <<Stamp(2024, 1, 2, 0, 0, 0), <<"0">>>> }

InitDraw == InitWith(DrawCfgs)

NextDraw ==
  \/ \E row \in DrawRows : counter_line < MaxLinesDraw /\ ReadLine(row)
  \/ EndOfStream
  \/ DrawGraph

SpecDraw == InitDraw /\ [][NextDraw]_vars

--------------------------------------------------------------------------
\* The reduction of the precision: two or three labels, formatted at one to
\* three fraction digits, reduced, and formatted and reduced again.

MaxRuns == 2

\* 0.149, 0.151, 0.249 and 1.151
LabelPool == {149, 151, 249, 1151}

LabelLists ==
  { <<a, b>> : a \in LabelPool, b \in LabelPool }
    \cup { <<a, b, c>> : a \in LabelPool, b \in LabelPool, c \in LabelPool }

InitReduce ==
  Begin({Defaults}, "format",
        { [NoLabels EXCEPT !.legend_values = l, !.zend = f] :
            l \in LabelLists, f \in 1..Scale })

NextReduce ==
  \/ FormatLabels
  \/ ReduceLabels(ylabels.runs + 1 < MaxRuns)

SpecReduce == InitReduce /\ [][NextReduce]_vars

--------------------------------------------------------------------------
\* The interrupt: up to twelve lines, a number or a text that is none, read
\* from the preview on, with -y 2; the interrupt may come at any step.

MaxLinesInterrupt == 12

InterruptRows == { <<<<"1">>>>, <<Junk>> }

InitInterrupt ==
  Begin({[Defaults EXCEPT !.YHEIGHT = 2]}, "preview", {NoLabels})

NextInterrupt ==
  \/ PreviewLine
  \/ \E eof \in BOOLEAN : PreviewEnd(eof)
  \/ \E row \in InterruptRows :
       /\ counter_line < MaxLinesInterrupt
       /\ counter_line < preview.n \/ ~preview.eof
       /\ ReadLine(row)
  \/ counter_line >= preview.n /\ EndOfStream
  \/ DrawGraph
  \/ Interrupt

SpecInterrupt == InitInterrupt /\ [][NextInterrupt]_vars

--------------------------------------------------------------------------
\* The rows in error: up to six rows of a text that is no number, of a
\* number, and of a timestamp before either, read without -c, with -c 1,
\* with -c 2, and with -c 2 and the target filter 2025.

MaxLinesErrors == 6

ErrorRows ==
  { <<Junk>>, <<<<"1">>>>,
    <<Stamp(2024, 1, 1, 0, 0, 0), Junk>>,
    <<Stamp(2024, 1, 1, 0, 0, 0), <<"1">>>> }

ErrorCfgs ==
  { Defaults,
    [Defaults EXCEPT !.COLUMN = 1],
    [Defaults EXCEPT !.COLUMN = 2],
    [Defaults EXCEPT !.COLUMN = 2, !.TARGET = <<"2", "0", "2", "5">>] }

InitErrors == InitWith(ErrorCfgs)

NextErrors ==
  \/ \E row \in ErrorRows : counter_line < MaxLinesErrors /\ ReadLine(row)
  \/ EndOfStream
  \/ DrawGraph

SpecErrors == InitErrors /\ [][NextErrors]_vars

--------------------------------------------------------------------------
\* The buckets: up to six rows of a value and a date or a time, the value
\* first (-c 1d, -c 1H) or last (-c 2d, -c 2H); with -c 1d also a row of
\* the value alone and a date of month 13.

MaxLinesBuckets == 6

BucketCfgs ==
  { [Defaults EXCEPT !.COLUMN = c, !.CSUM = u, !.YHEIGHT = 2] :
      c \in {1, 2}, u \in {"d", "H"} }

BucketRows ==
  IF cfg.COLUMN = 1 /\ cfg.CSUM = "d"
  THEN { <<<<"1">>>>, <<<<"2">>, Date(2024, 1, 1)>>,
         <<<<"1">>, Date(2024, 1, 2)>>, <<<<"1">>, Date(2024, 13, 1)>> }
  ELSE IF cfg.COLUMN = 1
  THEN { <<<<"1">>, Time(0, 0, 0)>>, <<<<"2">>, Time(0, 30, 0)>>,
         <<<<"1">>, Time(1, 0, 0)>> }
  ELSE IF cfg.CSUM = "d"
  THEN { <<Date(2024, 1, 1), <<"1">>>>, <<Date(2024, 1, 2), <<"2">>>> }
  ELSE { <<Time(0, 0, 0), <<"1">>>>, <<Time(0, 30, 0), <<"2">>>>,
         <<Time(1, 0, 0), <<"1">>>> }

InitBuckets == InitWith(BucketCfgs)

NextBuckets ==
  \/ \E row \in BucketRows : counter_line < MaxLinesBuckets /\ ReadLine(row)
  \/ EndOfStream
  \/ DrawGraph

SpecBuckets == InitBuckets /\ [][NextBuckets]_vars

\* ----------------------------------------------------------- properties

\* The position list and the value list of unit UnitOrder[k] in the
\* dictionaries a of the category the detector e has found.
Positions(a, e, k) ==
  IF e.x # NoIndex THEN a.x[UnitOrder[k]]
  ELSE IF k <= 3 THEN a.d[UnitOrder[k]] ELSE a.t[UnitOrder[k]]

Values(a, e, k) ==
  IF e.x # NoIndex THEN a.a[UnitOrder[k]]
  ELSE IF k <= 3 THEN a.b[UnitOrder[k]] ELSE a.c[UnitOrder[k]]

\* The slice of unit UnitOrder[k] in the prefixes X, D and T.
UnitSlice(e, X, D, T, k) ==
  IF e.x # NoIndex THEN Slice(X, ISO_PARTS[k].s1, ISO_PARTS[k].s2)
  ELSE IF k <= 3 THEN Slice(D, DATE_PARTS[k].s1, DATE_PARTS[k].s2)
  ELSE Slice(T, TIME_PARTS[k - 3].s1, TIME_PARTS[k - 3].s2)

\* The units of the category of unit k: all six of a timestamp field, the
\* date units or the time units of separate fields.
Category(k) ==
  IF colle.x # NoIndex THEN 1..6 ELSE IF k <= 3 THEN 1..3 ELSE 4..6

\* A step of the loop that hands a sample to date_time: the field set was
\* found before the row, and the process goes on reading.
TrackerStep ==
  /\ pc = "read" /\ pc' = "read"
  /\ counter_value' = counter_value + 1
  /\ colle.u /\ colle.s

OldSlice(k) == UnitSlice(colle, colle.X, colle.D, colle.T, k)

NewSlice(k) ==
  UnitSlice(colle, FieldPrefix(fields', colle.x, 19),
            FieldPrefix(fields', colle.d, 10),
            FieldPrefix(fields', colle.t, 8), k)

\* The lengths of the lists of records kept for unit l.
ListLens(l) ==
  {Len(axisx.x[l]), Len(axisx.a[l])}
    \cup (IF l \in UnitsD THEN {Len(axisx.d[l]), Len(axisx.b[l])}
          ELSE {Len(axisx.t[l]), Len(axisx.c[l])})

\* C1: once the format-error counter is positive the bucket map is empty and
\* the summation and the time handling are off, in that state and in every
\* later one (so no value is added to a bucket again), and the end of the
\* stream leaves the sequence of raw samples as it was read: the bucket sums
\* do not replace it.
C1_AbandonedForGood ==
  /\ [](colle.e > 0 =>
          grups.g = <<>> /\ ~grups.u /\ ~grups.l /\ ~colle.u)
  /\ [][colle.e > 0 /\ pc = "read" /\ pc' # "read"
          => raw_values' = raw_values]_vars

\* A run with -s d that met the format error on its 5th sample, read a
\* further sample and drew the chart from the raw samples.
C1_Witness ==
  /\ pc = "done" /\ cfg.CSUM # "" /\ colle.e > 0
  /\ old_counter_value > PrunePeriod
  /\ Len(raw_values) = old_counter_value

\* C2: after a format failure the rendered chart shows no tick labels on the
\* X axis (the renderer prints the bare axis line).
C2_NoTicksAfterViolation ==
  (pc = "done" /\ colle.e > 0) => xaxis.kind # "ticks"

\* C3: the detector makes at most 10 attempts in a run.
C3_AtMostTenAttempts == colle.l[1] <= SearchLimit

\* C4: a timestamp index excludes a date and a time index and the other way
\* round, and once one of the three indices is set none of them changes.
C4_ExclusiveWriteOnce ==
  /\ [](colle.x # NoIndex => colle.d = NoIndex /\ colle.t = NoIndex)
  /\ [][(colle.x # NoIndex \/ colle.d # NoIndex \/ colle.t # NoIndex)
          => /\ colle'.x = colle.x
             /\ colle'.d = colle.d
             /\ colle'.t = colle.t]_vars

\* The date field alone was adopted, and a later row with one timestamp
\* candidate has been read since.
C4_Witness ==
  /\ colle.d # NoIndex /\ colle.t = NoIndex /\ colle.x = NoIndex
  /\ counter_line > colle.f[1]
  /\ Len(fields) = 3
  /\ Len(Candidates(fields, 19, "ts")) = 1

\* C5 as the code has it: an attempt of the detector on a row that has not
\* exactly one timestamp candidate and whose only date candidate is column 2
\* adopts column 2 as the date field (index 1) and no timestamp field, and
\* once a field is found the detector makes no attempt on any later row.
C5_DateAdopted ==
  /\ [][(/\ colle'.l[1] = colle.l[1] + 1
         /\ Len(Candidates(fields', 19, "ts")) # 1
         /\ Candidates(fields', 10, "dt") = <<1>>)
          => colle'.d = 1 /\ colle'.x = NoIndex /\ colle'.s]_vars
  /\ [][colle.s => colle'.l = colle.l]_vars

\* Column 2 was adopted as the date field by the first attempt and two more
\* rows have been read without another attempt.
C5_Witness ==
  /\ colle.d = 1 /\ colle.x = NoIndex /\ colle.l[1] = 1
  /\ colle.f[1] = 1 /\ counter_line = 3

\* C5 as stated, on the first row of a run: a row in which column 2 is the
\* only field that matches the date grammar makes column 2 the date field.
C5_AsStated ==
  [][(/\ counter_line = 0 /\ counter_line' = 1
      /\ Candidates(fields', 10, "dt") = <<1>>)
       => colle'.d = 1]_vars

\* Unit k gets a record in this step: it is active and the slice of a unit of
\* its category that is not finer than k differs.
Changed(k) ==
  /\ axisx.i[UnitOrder[k]]
  /\ \E j \in Category(k) : j <= k /\ OldSlice(j) # NewSlice(j)

\* The lists of unit k after the comparison of this step.
Compared(k) ==
  IF Changed(k)
  THEN [pos |-> Append(Positions(axisx, colle, k), counter_value'),
        val |-> Append(Values(axisx, colle, k), NewSlice(k))]
  ELSE [pos |-> Positions(axisx, colle, k), val |-> Values(axisx, colle, k)]

\* C6 as the code has it: in a step of the tracker the record (sample index,
\* new slice) is appended for every active unit that is the coarsest unit of
\* its category whose slice differs or finer than it within the category,
\* and for no other unit: a timestamp field is one category of six units,
\* separate date and time fields are two categories of three; on a 5th
\* sample a list that then holds more records than the cap is emptied in the
\* same step.
C6_Cascade ==
  [][TrackerStep =>
       \A k \in 1..6 :
         IF counter_value' % PrunePeriod = 0
              /\ Len(Compared(k).pos) > axisx.m
         THEN /\ Positions(axisx', colle, k) = <<>>
              /\ Values(axisx', colle, k) = <<>>
         ELSE /\ Positions(axisx', colle, k) = Compared(k).pos
              /\ Values(axisx', colle, k) = Compared(k).val]_vars

\* The three rows of the example: a second change at row 2; day, hour,
\* minute and second changes at row 3.
C6_Witness ==
  /\ counter_value = 3 /\ colle.x = 0
  /\ colle.X = Stamp(2024, 1, 2, 0, 0, 0)
  /\ axisx.x = [y |-> <<>>, m |-> <<>>, d |-> <<3>>,
                H |-> <<3>>, M |-> <<3>>, S |-> <<2, 3>>]
  /\ axisx.a = [y |-> <<>>, m |-> <<>>, d |-> <<D2(2)>>,
                H |-> <<D2(0)>>, M |-> <<D2(0)>>, S |-> <<D2(1), D2(0)>>]

\* Unit k gets a record by the words of C6: it is the coarsest of the six
\* units whose slice differs, or it is active and finer than that unit.
ChangedAsStated(k) ==
  \/ OldSlice(k) # NewSlice(k) /\ \A j \in 1..(k - 1) : OldSlice(j) = NewSlice(j)
  \/ axisx.i[UnitOrder[k]] /\ \E j \in 1..(k - 1) : OldSlice(j) # NewSlice(j)

\* C6 as stated, on the steps without pruning: the coarsest unit whose slice
\* differs and every finer active unit get one record, no other unit does.
C6_AsStated ==
  [][TrackerStep /\ counter_value' % PrunePeriod # 0 =>
       \A k \in 1..6 :
         Len(Positions(axisx', colle, k))
           = Len(Positions(axisx, colle, k))
               + (IF ChangedAsStated(k) THEN 1 ELSE 0)]_vars

\* The samples read since the last pruning step, at most.
SincePruning ==
  IF pc = "read" THEN counter_value % PrunePeriod ELSE PrunePeriod - 1

\* C7 as the code has it: every list of an active unit holds at most
\* axisx.m records (the width of -x, else the width of the terminal) plus one
\* for each sample read since the last 5th sample: at most the cap right
\* after a pruning step, at most the cap and four in between.
C7_WithinCapAndSlack ==
  \A l \in UnitsTS :
    axisx.i[l] => \A n \in ListLens(l) : n <= axisx.m + SincePruning

\* After a pruning step that has deactivated a unit, an active unit holds
\* more records than the cap.
C7_Witness ==
  /\ pc = "read" /\ counter_value > PrunePeriod
  /\ \E l \in UnitsTS : ~axisx.i[l]
  /\ \E l \in UnitsTS : axisx.i[l] /\ Len(axisx.x[l]) > axisx.m

\* floor(availableColumns / 2) on the plot width main computes.
DensityCap ==
  AvailableChars(LongNumbers(long_numbers),
                 LongFloatpa(long_numbers, long_floatpa)) \div 2

\* C7 as stated: in every state every list of an active unit holds at most
\* floor(availableColumns / 2) records.
C7_AsStated ==
  \A l \in UnitsTS :
    axisx.i[l] => \A n \in ListLens(l) : n <= DensityCap

\* C8: after the 100th sample of a run without format error the detected
\* category has an active unit: the units that were active stay so, and a
\* category without any is made active again.
C8_ActiveAfterReset ==
  (/\ pc = "read" /\ counter_value = ResetPeriod
   /\ colle.u /\ colle.s /\ colle.e = 0)
    => /\ colle.x # NoIndex => \E l \in UnitsTS : axisx.i[l]
       /\ colle.d # NoIndex => \E l \in UnitsD : axisx.i[l]
       /\ colle.t # NoIndex => \E l \in UnitsT : axisx.i[l]

\* C9: the units to plot are at most twice the plot width main computes.
C9_UnitsWithinWidth == Len(val_for_plot) <= 2 * available_braille_chars

RECURSIVE Flatten(_)
Flatten(gs) == IF gs = <<>> THEN <<>> ELSE gs[1] \o Flatten(Tail(gs))

\* The lower boundary of unit k for the boundaries e.
LowerEnd(e, k) == IF k = 1 THEN 0 ELSE e[k - 1]

\* C10: once the samples are compressed, the units of the two multi
\* strategies put one after the other are the samples in their order, and
\* unit k of the mean strategy is the mean of the samples between the
\* boundaries k-1 and k, the boundaries running from 0 upwards to the number
\* of samples or beyond: every sample is in one unit, once, in order.
C10_UnitsPartitionSamples ==
  (pc \in {"draw", "done"} /\ raw_values # <<>>) =>
    IF cfg.MULTIV
    THEN Flatten(val_for_plot) = raw_values
    ELSE /\ Len(axisx.e) = Len(val_for_plot)
         /\ axisx.e[Len(axisx.e)] >= Len(raw_values)
         /\ \A k \in 1..Len(val_for_plot) :
              /\ LowerEnd(axisx.e, k) < axisx.e[k]
              /\ LowerEnd(axisx.e, k) < Len(raw_values)
              /\ val_for_plot[k]
                   = Mean(Slice(raw_values, LowerEnd(axisx.e, k), axisx.e[k]))

\* Five samples averaged in groups of three on a plot one character wide.
C10_Witness ==
  /\ pc = "done" /\ ~cfg.MULTIV /\ compression_factor = 3
  /\ Len(raw_values) = 5 /\ Len(val_for_plot) = 2
  /\ val_for_plot[2].den = 2

\* C11: on the same samples and compression factor the mean strategy and the
\* multi strategy of automatic width give the same number of units and the
\* same boundaries, every unit of the mean strategy is sum/len of the unit of
\* the multi strategy, and the units are consecutive groups of
\* compression_factor samples, the last one holding the rest.
C11_SamePartition ==
  (/\ pc \in {"draw", "done"} /\ raw_values # <<>>
   /\ ~(cfg.MULTIV /\ cfg.XWIDTH # 0)) =>
    /\ val_for_plot
         = IF cfg.MULTIV
           THEN group_values_for_multi(raw_values, compression_factor)
           ELSE average_values_in_groups(raw_values, compression_factor)
    /\ average_values_in_groups(raw_values, compression_factor)
         = MeanOf(group_values_for_multi(raw_values, compression_factor))
    /\ Averaged(raw_values, compression_factor).e
         = GroupEnds(raw_values, compression_factor)
    /\ axisx.e = GroupEnds(raw_values, compression_factor)
    /\ \A k \in 1..Len(val_for_plot) :
         Len(group_values_for_multi(raw_values, compression_factor)[k])
           = IF k < Len(val_for_plot) THEN compression_factor
             ELSE Len(raw_values) - (k - 1) * compression_factor

\* Five samples in groups of three: the second unit holds the two that rest.
C11_Witness ==
  /\ pc = "done" /\ cfg.MULTIV /\ cfg.XWIDTH = 0
  /\ compression_factor = 3 /\ Len(raw_values) = 5
  /\ Len(val_for_plot) = 2 /\ Len(val_for_plot[2]) = 2

\* b is k*n/(2*w) rounded to the nearest integer, a tie going to the even one.
Nearest(b, k, n, w) ==
  /\ 2 * (2 * w * b - k * n) <= 2 * w
  /\ 2 * (k * n - 2 * w * b) <= 2 * w
  /\ (2 * (2 * w * b - k * n) \in {2 * w, -(2 * w)} => b % 2 = 0)

\* C12: with -m and -x w, n samples give exactly 2*w units; the boundary of
\* unit k (counted from 1) is round(k*n/(2*w)), the boundaries never decrease
\* and the last one is n, and unit k is the slice of the samples between the
\* boundary before it and its own; ten samples with w = 3 give the boundaries
\* 2,3,5,7,8,10 and units of 2,1,2,2,1,2 samples.
C12_PreciseUnits ==
  (/\ pc \in {"draw", "done"} /\ raw_values # <<>>
   /\ cfg.MULTIV /\ cfg.XWIDTH # 0) =>
    /\ Len(val_for_plot) = 2 * cfg.XWIDTH
    /\ Len(axisx.e) = 2 * cfg.XWIDTH
    /\ \A k \in 1..Len(axisx.e) :
         /\ Nearest(axisx.e[k], k, Len(raw_values), cfg.XWIDTH)
         /\ k > 1 => axisx.e[k - 1] <= axisx.e[k]
         /\ val_for_plot[k]
              = Slice(raw_values, IF k = 1 THEN 0 ELSE axisx.e[k - 1],
                      axisx.e[k])
    /\ axisx.e[Len(axisx.e)] = Len(raw_values)
    /\ (Len(raw_values) = 10 /\ cfg.XWIDTH = 3) =>
         /\ axisx.e = <<2, 3, 5, 7, 8, 10>>
         /\ [k \in 1..6 |-> Len(val_for_plot[k])] = <<2, 1, 2, 2, 1, 2>>

\* Ten samples cut into six units.
C12_Witness ==
  /\ pc = "done" /\ cfg.MULTIV /\ cfg.XWIDTH = 3
  /\ Len(raw_values) = 10 /\ Len(val_for_plot) = 6

\* The values drawn for unit k: the samples of the unit, or its mean.
UnitValues(k) ==
  {ColumnValues(val_for_plot[k])[j] :
     j \in 1..Len(ColumnValues(val_for_plot[k]))}

Cells == {rc \in (1..cfg.YHEIGHT) \X (1..((Len(val_for_plot) + 1) \div 2)) :
            canvas # <<>>}

\* Bit b of the mask of the cell in text row r (from 1) and column c.
BitSet(r, c, b) == ((canvas[r][c] - 10240) \div (2 ^ b)) % 2 = 1

\* The bits the two units of cell (r, c) set under the maps left and right.
BitsUnder(r, c, left, right) ==
  DotsOf(ColumnValues(val_for_plot[2 * c - 1]), left, r - 1,
         MinVal(raw_values), MaxVal(raw_values))
    \cup (IF 2 * c <= Len(val_for_plot)
          THEN DotsOf(ColumnValues(val_for_plot[2 * c]), right, r - 1,
                      MinVal(raw_values), MaxVal(raw_values))
          ELSE {})

\* C13: a value whose text row is the row rendered sets, for a left unit,
\* bit 6, 2, 1, 0 of the mask for the dot 0, 1, 2, 3 counted from the bottom
\* of the cell, and for a right unit bit 7, 5, 4, 3; no other bit is set,
\* and the cell is printed as the code point 0x2800 + mask.
C13_BitsFromBottom ==
  \A rc \in Cells :
    /\ canvas[rc[1]][rc[2]] \in 10240..10495
    /\ \A b \in 0..7 :
         BitSet(rc[1], rc[2], b)
           <=> b \in BitsUnder(rc[1], rc[2], <<6, 2, 1, 0>>, <<7, 5, 4, 3>>)

\* A cell whose two units both set their lowest dot.
C13_Witness ==
  /\ pc = "done"
  /\ \E rc \in Cells : canvas[rc[1]][rc[2]] = 10240 + 64 + 128

\* C13 as stated: bit 0, 1, 2, 6 for a left unit and bit 3, 4, 5, 7 for a
\* right unit, for the dot 0, 1, 2, 3 counted from the bottom.
C13_AsStated ==
  \A rc \in Cells :
    \A b \in 0..7 :
      BitSet(rc[1], rc[2], b)
        <=> b \in BitsUnder(rc[1], rc[2], <<0, 1, 2, 6>>, <<3, 4, 5, 7>>)

\* The pixel, counted from the bottom, that holds the share of the value in
\* the range: pp <= (v - min) / (max - min) * (4h - 1) < pp + 1.
PixelRow(v) ==
  CHOOSE pp \in 0..(4 * cfg.YHEIGHT - 1) :
    /\ pp * v.den * (MaxVal(raw_values) - MinVal(raw_values))
         <= (v.num - MinVal(raw_values) * v.den) * (4 * cfg.YHEIGHT - 1)
    /\ (v.num - MinVal(raw_values) * v.den) * (4 * cfg.YHEIGHT - 1)
         < (pp + 1) * v.den * (MaxVal(raw_values) - MinVal(raw_values))

\* Unit k has a dot at the pixel pp.
DotAt(k, pp) ==
  BitSet(cfg.YHEIGHT - (pp \div 4), (k + 1) \div 2,
         (IF k % 2 = 1 THEN LeftMap ELSE RightMap)[(pp % 4) + 1])

NoOverride == ~cfg.TOPVAL.set /\ ~cfg.DOWNV.set

\* C14: without overrides and with max > min every value drawn has its dot
\* at one pixel 0..4h-1 of its unit, in text row h-1 - pixel div 4 at the
\* dot pixel mod 4, and its unit has no dot at a pixel of no value; a value
\* equal to the minimum is at pixel 0 (the last text row, dot 0), one equal
\* to the maximum at pixel 4h-1 (text row 0, dot 3); a larger value is never
\* at a lower pixel; 0, 5, 10 at height 2 are at the pixels 0, 3 and 7.
C14_OneDotPerValue ==
  (/\ pc = "done" /\ canvas # <<>> /\ NoOverride
   /\ MaxVal(raw_values) > MinVal(raw_values)) =>
    /\ \A k \in 1..Len(val_for_plot) :
         /\ \A v \in UnitValues(k) :
              /\ DotAt(k, PixelRow(v))
              /\ v.num = MinVal(raw_values) * v.den => PixelRow(v) = 0
              /\ v.num = MaxVal(raw_values) * v.den
                   => PixelRow(v) = 4 * cfg.YHEIGHT - 1
              /\ \A j \in 1..Len(val_for_plot) :
                   \A w \in UnitValues(j) :
                     v.num * w.den <= w.num * v.den
                       => PixelRow(v) <= PixelRow(w)
         /\ \A pp \in 0..(4 * cfg.YHEIGHT - 1) :
              DotAt(k, pp) => \E v \in UnitValues(k) : PixelRow(v) = pp
    /\ (raw_values = <<0, 5, 10>> /\ cfg.YHEIGHT = 2
        /\ Len(val_for_plot) = 3) =>
         /\ DotAt(1, 0) /\ DotAt(2, 3) /\ DotAt(3, 7)
         /\ canvas = << <<10240, 10241>>, <<10240 + 64 + 8, 10240>> >>

\* The samples 0, 5, 10 drawn at height 2, one unit each.
C14_Witness ==
  /\ pc = "done" /\ NoOverride /\ raw_values = <<0, 5, 10>>
  /\ cfg.YHEIGHT = 2 /\ Len(val_for_plot) = 3 /\ Len(canvas) = 2

\* C15: with an override given every value drawn lies within the minimum
\* and the maximum of the normalization and has a dot in some text row.
C15_AllWithinOverrides ==
  (pc = "done" /\ canvas # <<>> /\ ~NoOverride) =>
    \A k \in 1..Len(val_for_plot) :
      \A v \in UnitValues(k) :
        /\ MinVal(raw_values) * v.den <= v.num
        /\ v.num <= MaxVal(raw_values) * v.den
        /\ \E pp \in 0..(4 * cfg.YHEIGHT - 1) : DotAt(k, pp)

\* C16: once the precision has been reduced, formatting the same label
\* values at the reduced precision and reducing again returns that
\* precision.
C16_Idempotent ==
  [][(pc = "reduce" /\ ylabels.runs >= 1) => ylabels'.zend = ylabels.zend]_vars

\* The change records the legend chooses from: those of the timestamp field,
\* or those of the date and the time field.
Records == IF colle.x # NoIndex THEN axisx.x ELSE Merge(axisx.d, axisx.t)

\* The units of more than no and fewer than half as many records as the
\* chart has character cells.
Eligible ==
  {k \in DOMAIN Records :
     0 < Len(Records[k]) /\ Len(Records[k]) < axisx.M \div 2}

\* The place of a unit in the order y, m, d, H, M, S.
Rank(k) == CHOOSE i \in 1..Len(UnitOrder) : UnitOrder[i] = k

\* The legend is printed from the change records.
Labelled ==
  /\ pc = "done" /\ canvas # <<>> /\ cfg.SHOWLEGEND /\ axisx.u
  /\ cfg.CSUM = "" /\ axisx.M >= 10

\* C17: below a chart of at least ten character cells drawn with change
\* records and without summation, the legend uses, among the units of more
\* than 0 and fewer than int(cells / 2) records, the one of the most
\* records, and of several with the most records the coarsest; when no unit
\* is eligible the axis line is bare.  Ticks are printed in no other case.
C17_CoarsestOfTheMost ==
  /\ Labelled =>
       /\ Eligible = {} <=> xaxis.kind = "bare"
       /\ Eligible # {} =>
            /\ xaxis.kind = "ticks"
            /\ xaxis.lkey \in Eligible
            /\ \A k \in Eligible :
                 /\ Len(Records[k]) <= Len(Records[xaxis.lkey])
                 /\ Len(Records[k]) = Len(Records[xaxis.lkey])
                      => Rank(xaxis.lkey) <= Rank(k)
  /\ xaxis.kind = "ticks" => Labelled

\* The day and every finer unit have one record each; the legend is that of
\* the days.
C17_Witness ==
  /\ Labelled /\ xaxis.kind = "ticks" /\ xaxis.lkey = "d"
  /\ \A k \in {"d", "H", "M", "S"} :
       k \in Eligible /\ Len(Records[k]) = Len(Records["d"])

\* C17 as stated: of several units with the most records the finest is used.
C17_AsStated ==
  (Labelled /\ Eligible # {}) =>
    /\ xaxis.kind = "ticks"
    /\ \A k \in Eligible :
         /\ Len(Records[k]) <= Len(Records[xaxis.lkey])
         /\ Len(Records[k]) = Len(Records[xaxis.lkey])
              => Rank(xaxis.lkey) >= Rank(k)

\* C18: an interrupt that arrives while the input is read, the preview of
\* the first ten lines included, ends the run by the handler, which reports
\* the count of the values loaded so far and exits with 130, and no row of a
\* chart has been printed.
C18_InterruptReported ==
  [][(pc \in {"preview", "read"} /\ pc' \in {"interrupted", "killed"})
       => /\ pc' = "interrupted"
          /\ report' = Len(raw_values)
          /\ canvas' = <<>>]_vars

\* C19: no row aborts the run: after a row has been processed, one read
\* after the detection with fewer fields than the index of the time field
\* or with a malformed time field included, the run is still in its loop.
C19_RowsNeverAbort ==
  [][(pc = "read" /\ counter_line' = counter_line + 1) => pc' = "read"]_vars

\* A row has been read.
RowRead == pc = "read" /\ counter_line' = counter_line + 1

\* The row read has fewer fields than the selected column.
ShortRow == cfg.COLUMN # 0 /\ Len(fields') < cfg.COLUMN

\* The row read has the selected field and it is no number.
NotNumeric ==
  /\ cfg.COLUMN # 0 /\ Len(fields') >= cfg.COLUMN
  /\ ~ParseFloat(fields'[cfg.COLUMN]).ok

\* The row is counted as an error and nothing of it is kept: no sample, no
\* change record, no bucket; its line number is kept while fewer than four
\* are.
CountedOnly ==
  /\ counter_error' = counter_error + 1
  /\ pc' = "read"
  /\ UNCHANGED <<raw_values, counter_value, counter_skipped, long_numbers>>
  /\ axisx' = [axisx EXCEPT !.u = axisx'.u]
  /\ grups' = [grups EXCEPT !.u = grups'.u]
  /\ err_lines' = IF Len(err_lines) < 4
                  THEN Append(err_lines, counter_line + 1)
                  ELSE err_lines

\* The detector has not been run on the row.
Undetected == UNCHANGED <<colle, axisx, grups>>

\* The line numbers kept are as many as the errors, up to four, and ascend.
FirstFour ==
  /\ Len(err_lines) = Min2(4, counter_error)
  /\ \A i \in 1..Len(err_lines) :
       /\ err_lines[i] \in 1..counter_line
       /\ i > 1 => err_lines[i - 1] < err_lines[i]

C21_WithinGivenWidth ==
  (pc \in {"draw", "done"} /\ cfg.XWIDTH >= 1 /\ val_for_plot # <<>>)
    => (Len(val_for_plot) + 1) \div 2 <= cfg.XWIDTH

\* The key the claim gives to the row read when a date alone or a time
\* alone is detected: the date with the time 00:00:00, or the date
\* 0000-00-00 with the time, cut at the unit of the summation.
StatedKey ==
  Prefix(IF colle'.d # NoIndex
         THEN Prefix(fields'[colle'.d + 1], 10) \o <<"T">> \o DefaultTime
         ELSE DefaultDate \o <<"T">> \o Prefix(fields'[colle'.t + 1], 8),
         PartEnd(cfg.CSUM))

\* A sample has been stored while the summation is on and a date alone or a
\* time alone is detected, in a row that has the detected field.
StoredOneSided ==
  /\ RowRead /\ Len(raw_values') = Len(raw_values) + 1
  /\ cfg.CSUM # "" /\ colle'.u /\ colle'.s /\ colle'.x = NoIndex
  /\ (colle'.d = NoIndex) # (colle'.t = NoIndex)
  /\ Len(fields') > (IF colle'.d # NoIndex THEN colle'.d ELSE colle'.t)

\* C22: the sample of a row read with a date alone or a time alone
\* detected, at whatever field index, is added under the stated key and the
\* run goes on.
C22_KeySynthesized ==
  [][StoredOneSided
       => /\ pc' = "read"
          /\ \E k \in 1..Len(grups'.g) : grups'.g[k][1] = StatedKey]_vars

\* C23: while the summation is on, the bucket sums add up to the sum of the
\* samples stored.
C23_EverySampleInABucket ==
  (pc = "read" /\ grups.u) => SumSeq(BucketSums(grups.g)) = SumSeq(raw_values)

\* The buckets after a step are those before it with one sum raised or one
\* new key at the end, or none.
KeysInOrder ==
  \/ grups'.g = grups.g
  \/ grups'.g = <<>>
  \/ \E k \in 1..Len(grups.g) :
       /\ Len(grups'.g) = Len(grups.g)
       /\ \A j \in 1..Len(grups.g) :
            /\ grups'.g[j][1] = grups.g[j][1]
            /\ j # k => grups'.g[j] = grups.g[j]
  \/ /\ Len(grups'.g) = Len(grups.g) + 1
     /\ SubSeq(grups'.g, 1, Len(grups.g)) = grups.g
     /\ \A j \in 1..Len(grups.g) :
          grups.g[j][1] # grups'.g[Len(grups.g) + 1][1]

\* The stream has ended.
StreamEnds == pc = "read" /\ pc' \in {"draw", "done"}

\* C24: at the end of the stream, if the summation was asked for, no format
\* error was counted and there is a bucket, the samples handed on are the
\* bucket sums, one for each key in the order the keys came up, and the
\* count is the number of the buckets; else the samples and the count are
\* handed on as they are.
C24_SumsReplaceSamples ==
  /\ [][KeysInOrder]_vars
  /\ [][StreamEnds =>
          IF cfg.CSUM # "" /\ colle.e = 0 /\ grups.g # <<>>
          THEN /\ raw_values' = [k \in 1..Len(grups.g) |-> grups.g[k][2]]
               /\ counter_value' = Len(grups.g)
          ELSE /\ raw_values' = raw_values
               /\ counter_value' = counter_value]_vars

\* Three samples of two days handed on as two sums.
C24_Witness ==
  /\ pc = "done" /\ grups.l /\ Len(grups.g) = 2
  /\ old_counter_value = 3 /\ counter_value = 2 /\ Len(raw_values) = 2

\* The field at index i of the row g exists and is accepted by the validator
\* of the category on its first n characters.
ValidAt(g, i, n, mode) == Len(g) > i /\ is_valid(Prefix(g[i + 1], n), mode)

\* The step adopts a field for a category, whose index goes from before to
\* after, when the detector has made an attempt on the row read before.
AdoptsAfterAttempt(before, after) ==
  RowRead /\ colle.l[1] >= 1 /\ before = NoIndex /\ after # NoIndex

\* C25: a field adopted for a category satisfied the validator of the
\* category in the row the detector saw before the row of the adoption too.
C25_ValidInEveryRowSeen ==
  [][/\ AdoptsAfterAttempt(colle.x, colle'.x)
          => ValidAt(fields, colle'.x, 19, "ts")
     /\ AdoptsAfterAttempt(colle.d, colle'.d)
          => ValidAt(fields, colle'.d, 10, "dt")
     /\ AdoptsAfterAttempt(colle.t, colle'.t)
          => ValidAt(fields, colle'.t, 8, "ti")]_vars

\* A row is read while the detector is usable and fewer than SearchLimit
\* samples are stored, and the row has exactly one candidate of the category.
OneCandidateEarly(n, mode) ==
  /\ RowRead /\ colle.u /\ counter_value < SearchLimit
  /\ Len(fields') >= cfg.COLUMN
  /\ Len(Candidates(fields', n, mode)) = 1

\* C26: after a date field has been adopted alone, a row among the first
\* ten with exactly one time candidate has the time field adopted, and the
\* same for a date after a time adopted alone.
C26_OtherCategoryStillOpen ==
  [][/\ (colle.d # NoIndex /\ colle.t = NoIndex /\ colle.x = NoIndex
           /\ OneCandidateEarly(8, "ti")) => colle'.t # NoIndex
     /\ (colle.t # NoIndex /\ colle.d = NoIndex /\ colle.x = NoIndex
           /\ OneCandidateEarly(10, "dt")) => colle'.d # NoIndex]_vars

\* The number of samples of unit k (counted from 1): the samples a unit of
\* the multi strategies holds, the group size of the mean strategy.
UnitSize(k) ==
  IF cfg.MULTIV THEN Len(val_for_plot[k]) ELSE compression_factor

\* The number of samples of the units before unit k.
RECURSIVE SamplesBefore(_)
SamplesBefore(k) ==
  IF k = 1 THEN 0 ELSE SamplesBefore(k - 1) + UnitSize(k - 1)

\* The units, counted from 0, that contain the p-th sample.
UnitsHolding(p) ==
  {i \in 0..(Len(val_for_plot) - 1) :
     SamplesBefore(i + 1) < p /\ p <= SamplesBefore(i + 1) + UnitSize(i + 1)}

\* A change of the unit of the legend is recorded at a sample of a unit of
\* the given half (0 left, 1 right) of the character cell c (from 0).
ChangeIn(c, half) ==
  \E j \in 1..Len(Records[xaxis.lkey]) :
    2 * c + half \in UnitsHolding(Records[xaxis.lkey][j])

\* C27: every change recorded for the unit of the legend is at a sample
\* that one unit contains, and the mask of a character cell of the tick line
\* has bit 0 iff a change lies in the unit of its left half and bit 3 iff a
\* change lies in the unit of its right half, and no other bit.
C27_TicksAtUnits ==
  xaxis.kind = "ticks" =>
    /\ \A j \in 1..Len(Records[xaxis.lkey]) :
         Cardinality(UnitsHolding(Records[xaxis.lkey][j])) = 1
    /\ \A c \in 0..(Len(xaxis.line1) - 1) :
         xaxis.line1[c + 1] = (IF ChangeIn(c, 0) THEN 1 ELSE 0)
                                + (IF ChangeIn(c, 1) THEN 8 ELSE 0)

\* Changes at samples of the two units of one character cell, the units of
\* the mean strategy being groups of two samples.
C27_Witness ==
  /\ xaxis.kind = "ticks" /\ ~cfg.MULTIV /\ compression_factor = 2
  /\ \E c \in 1..Len(xaxis.line1) : xaxis.line1[c] = 9

\* C28: for every unit the list of the positions and the list of the values
\* of its changes have the same length, in each of the three categories, and
\* all lists of a unit that is not active are empty.
C28_ListsAligned ==
  \A l \in UnitsTS :
    /\ Len(axisx.x[l]) = Len(axisx.a[l])
    /\ l \in UnitsD => Len(axisx.d[l]) = Len(axisx.b[l])
    /\ l \in UnitsT => Len(axisx.t[l]) = Len(axisx.c[l])
    /\ ~axisx.i[l] => ListLens(l) = {0}

\* The 100th sample has been stored, after changes were recorded and every
\* unit was pruned.
C28_Witness ==
  /\ pc = "read" /\ counter_value = ResetPeriod /\ colle.u
  /\ \A l \in UnitsTS : ~axisx.i[l]

====
